---------------------------- MODULE Spec2Model ----------------------------
(***************************************************************************)
(* Model of the synchronized per-user voice recorder,                      *)
(* src/utils/voice_recorder.js lines 573-1322: the UserTrackManager        *)
(* (one continuous track per participant), the VoiceRecorder session       *)
(* controller, and the cross-process registry file recording_state.json.   *)
(*                                                                         *)
(* Each OS process of Procs runs one VoiceRecorder.  Every async function  *)
(* is cut at its awaits: one action per synchronous stretch of code.       *)
(* Time is in milliseconds, sizes are in bytes.                            *)
(***************************************************************************)
EXTENDS Integers, FiniteSets, Sequences, TLC

\* ------------------------------------------------------------ constants
SAMPLE_RATE == 48000
CHANNELS == 2
FRAME_SIZE == 960
\* Buffer.alloc(FRAME_SIZE * CHANNELS * 2)
BytesPerFrame == FRAME_SIZE * CHANNELS * 2
\* a buffer of one byte per sample and channel
SilenceBufferOneByteSamples == [length |-> FRAME_SIZE * CHANNELS, fill |-> 0]
\* SilenceGenerator's silenceBuffer: Buffer.alloc(this.bytesPerFrame), which is
\* FRAME_SIZE * CHANNELS * 2 bytes, every byte with the value fill
SilenceBuffer == [length |-> FRAME_SIZE * CHANNELS * 2, fill |-> 0]
\* one frame of FRAME_SIZE samples at SAMPLE_RATE lasts 20 ms
FramePeriodMs == (FRAME_SIZE * 1000) \div SAMPLE_RATE
\* for (let i = 0; i < 16; i++) in stopRecording
STOP_POLLS == 16

\* the size under which _checkOutputFile calls a file too small
MIN_FILE_SIZE == 1000

\* ------------------------------------------------------------ bounds
\* the clock stops after MaxTicks frame periods
MaxTicks == 3
\* a track's sink takes at most MaxFrames frames of writes
MaxFrames == 4
\* receiver.subscribe calls followed for one track
MaxStreams == 2
\* encoders the per-utterance recorder spawns for one user
MaxEncoders == 3
\* PCM captures one processRecording call converts
MaxFiles == 2
\* rows of the scoreboard table the scraper reads
MaxPlayers == 6
\* the ACS cells hold 0..MaxAcs
MaxAcs == 1
\* the two round scores hold 0..MaxScore
MaxScore == 1

Procs == {"p1", "p2"}
Users == {"u1", "u2"}
\* the members of a guild that are bots, and all its members
Bots == {"b1"}
Members == Users \cup Bots
Guilds == {"g1", "g2"}
Dirs == {"d1"}
\* where a participant is: in no voice channel, in the recorded channel, in another one
Chans == {"none", "rec", "other"}
\* who invoked _stopCurrentRecording: stopRecording, _monitorStopFlag, shutdown(signal),
\* the uncaughtException handler
DrainSources == {"api", "flag", "signal", "uncaught"}

VARIABLES
    alive,            \* [Procs -> BOOLEAN]: the OS process exists
    isReady,          \* this.isReady
    shouldExit,       \* this.shouldExit
    activeRecording,  \* this.activeRecording (NoRec = null)
    userTracks,       \* rec.userTracks: [Procs -> [Users -> track]]
    connection,       \* rec.connection / the joined voice connection
    recovering,       \* the Disconnected handler awaits the reconnection
    sigPending,       \* a SIGTERM or SIGINT was sent and its handler has not run yet
    listening,        \* the receiver and voiceStateUpdate listeners of rec are registered
    monitor,          \* the _monitorStopFlag interval is set
    draining,         \* in-flight _stopCurrentRecording calls, in their 5 s wait
    startPc,          \* where startRecording is
    startArgs,        \* its arguments
    startResult,      \* its last return value
    stopPc,           \* where stopRecording is
    stopArgs,         \* its guildId and the state it loaded
    stopPolls,        \* i of its poll loop
    stopResult,       \* its last return value
    killFailed,       \* its process.kill(state.pid) threw
    registry,         \* the content of STATE_FILE (NoState = no file)
    stopFlag,         \* [Dirs -> BOOLEAN]: outputDir/stop.flag exists
    dirExists,        \* outputDir is missing ("no") or the mkdirSync that made it
    ffmpegOnPath,     \* the encoder binary can be spawned
    channel,          \* [Users -> Chans]
    now,              \* Date.now()
    cliExit,          \* the status of the process.exit that ended the CLI's start or
                      \* stop command in the process (NoExit: neither has)
    utterance,        \* the per-utterance recorder: recording.userStreams for one
                      \* user, with the encoders and streams spawned for that user
    conversion,       \* one processRecording call of the PCM-then-convert recorder
                      \* with the convertPcmToWav call of each capture
    scrape,           \* the data the match scraper's page.evaluate returned
    timers            \* [Procs -> [TimerNames -> ms]]: the time left on each
                      \* setTimeout / setInterval of the stop protocol (NullTime:
                      \* not set)

vars == <<alive, isReady, shouldExit, activeRecording, userTracks, connection,
          recovering, sigPending, listening, monitor, draining, startPc, startArgs, startResult, stopPc,
          stopArgs, stopPolls, stopResult, killFailed, registry, stopFlag,
          dirExists, ffmpegOnPath, channel, now, cliExit, utterance, conversion,
          scrape, timers>>

\* ------------------------------------------------------------ values
NoRec == [guildId |-> "none", outputDir |-> "none", recordingStartTime |-> 0]
NoState == [guildId |-> "none", outputDir |-> "none", pid |-> "none"]
\* startRecording's arguments, with the recordingStartTime of its rec, the error it
\* logged last and whether its checkExistingRecording unlinked a stale record
NoArgs ==
    [guildId |-> "none", outputDir |-> "none", startTime |-> 0, log |-> "none",
     clearedStale |-> FALSE]
NoStop == [guildId |-> "none", outputDir |-> "none", pid |-> "none", wrote |-> FALSE]

\* null, for a time
NullTime == 0 - 1

\* no exit status: the process runs, or a signal or an exception ended it
NoExit == 0 - 1

\* no output file seen by _checkOutputFile
NoSize == 0 - 1

\* the sizes of the file an encoder leaves behind, on both sides of the threshold
FileSizes == {MIN_FILE_SIZE - 1, MIN_FILE_SIZE}

\* no UserTrackManager for the participant.  Beside the fields of the class a track
\* carries its history: spawns (the encoder processes spawned for the participant),
\* cleanedUp (cleanup() was called), bytes and lastWriter (what was written to
\* mixerStream, and by whom last), createdAt, subscribed (the opus streams that
\* receiver.subscribe made for the track, numbered from 1; the one attached is the
\* last) and openStreams (those neither destroyed nor ended)
NoTrack ==
    [exists |-> FALSE, isPresent |-> FALSE, isReceivingAudio |-> FALSE,
     joinTime |-> NullTime, leaveTime |-> NullTime,
     currentOpusStream |-> FALSE, currentDecoder |-> FALSE,
     silenceGenerator |-> "none", mixerWritable |-> FALSE,
     ffmpegProcess |-> "none", piped |-> FALSE, killTimer |-> FALSE,
     spawns |-> 0, cleanedUp |-> FALSE, bytes |-> 0, lastWriter |-> "none",
     createdAt |-> 0, subscribed |-> 0, openStreams |-> {}, fileSize |-> NoSize,
     staleHandled |-> FALSE, encoded |-> 0]

\* ------------------------------------------------------------ UserTrackManager
\* constructor: flags cleared, mixerStream created, _setupFFmpeg (spawn, pipe),
\* _startSilenceGeneration
NewTrack(t0, spawnedBefore) ==
    [exists |-> TRUE, isPresent |-> FALSE, isReceivingAudio |-> FALSE,
     joinTime |-> NullTime, leaveTime |-> NullTime,
     currentOpusStream |-> FALSE, currentDecoder |-> FALSE,
     silenceGenerator |-> "running", mixerWritable |-> TRUE,
     ffmpegProcess |-> "running", piped |-> TRUE, killTimer |-> FALSE,
     spawns |-> spawnedBefore + 1, cleanedUp |-> FALSE, bytes |-> 0,
     lastWriter |-> "none", createdAt |-> t0, subscribed |-> 0,
     openStreams |-> {}, fileSize |-> NoSize, staleHandled |-> FALSE,
     encoded |-> 0]

\* a write that throws away what the encoder has not read yet
MixerWriteDropsBacklog(t, n, who) ==
    IF t.mixerWritable THEN [t EXCEPT !.bytes = t.encoded + n, !.lastWriter = who] ELSE t

\* mixerStream.write(chunk) of n bytes, under if (this.mixerStream.writable): the
\* return value of write is not looked at, the chunk is buffered by the PassThrough
\* behind what the encoder has not read yet (bytes - encoded)
MixerWrite(t, n, who) ==
    IF t.mixerWritable THEN [t EXCEPT !.bytes = @ + n, !.lastWriter = who] ELSE t

\* _insertSilence(durationMs)
InsertSilence(t, durationMs) ==
    LET samplesNeeded == (durationMs * SAMPLE_RATE) \div 1000
        bytesNeeded == samplesNeeded * CHANNELS * 2
    IN  MixerWrite(t, bytesNeeded, "insert")

\* userJoined(joinTime)
UserJoined(t, joinTime, recordingStartTime) ==
    LET t1 == [t EXCEPT !.isPresent = TRUE, !.joinTime = joinTime]
        silenceDuration == joinTime - recordingStartTime
    IN  IF silenceDuration > 0 THEN InsertSilence(t1, silenceDuration) ELSE t1

\* _stopCurrentAudioStream that leaves isReceivingAudio as it is
StopCurrentAudioStreamKeepsFlag(t) ==
    [t EXCEPT !.openStreams = IF t.currentOpusStream THEN @ \ {t.subscribed} ELSE @,
              !.currentOpusStream = FALSE,
              !.currentDecoder = FALSE]

\* _stopCurrentAudioStream()
StopCurrentAudioStream(t) ==
    [t EXCEPT !.isReceivingAudio = FALSE,
              !.openStreams = IF t.currentOpusStream THEN @ \ {t.subscribed} ELSE @,
              !.currentOpusStream = FALSE,
              !.currentDecoder = FALSE]

\* userLeft that also destroys the silence generator and ends the mixer stream
UserLeftClosesSink(t, leaveTime) ==
    [t EXCEPT !.isPresent = FALSE, !.leaveTime = leaveTime,
              !.isReceivingAudio = FALSE,
              !.openStreams = IF t.currentOpusStream THEN @ \ {t.subscribed} ELSE @,
              !.currentOpusStream = FALSE, !.currentDecoder = FALSE,
              !.silenceGenerator = "destroyed", !.mixerWritable = FALSE]

\* userLeft(leaveTime)
UserLeft(t, leaveTime) ==
    StopCurrentAudioStream([t EXCEPT !.isPresent = FALSE, !.leaveTime = leaveTime])

\* the stream that receiver.subscribe has made is attached with a new decoder
AttachStream(t) ==
    [t EXCEPT !.subscribed = @ + 1,
              !.openStreams = @ \cup {t.subscribed + 1},
              !.currentOpusStream = TRUE,
              !.currentDecoder = TRUE]

\* startReceivingAudio that attaches without _stopCurrentAudioStream first
StartReceivingAudioNoDetach(t) ==
    AttachStream([t EXCEPT !.isReceivingAudio = TRUE])

\* startReceivingAudio(opusStream): the flag is set, then _stopCurrentAudioStream
\* clears it again, then the stream and a new decoder are attached
StartReceivingAudio(t) ==
    LET t1 == [t EXCEPT !.isReceivingAudio = TRUE]
        t2 == StopCurrentAudioStream(t1)
    IN  AttachStream(t2)

\* stopReceivingAudio()
StopReceivingAudio(t) == StopCurrentAudioStream(t)

\* cleanup() whose mixerStream.end() on an ended stream breaks the encoder
CleanupEndsTwice(t) ==
    LET t1 == StopCurrentAudioStream(t)
    IN  [t1 EXCEPT !.silenceGenerator = "destroyed",
                   !.ffmpegProcess = IF t.mixerWritable THEN @ ELSE "failed",
                   !.mixerWritable = FALSE,
                   !.killTimer = TRUE,
                   !.cleanedUp = TRUE]

\* cleanup(): detach, destroy the silence generator, end the mixer stream, arm the
\* 2 s SIGTERM timer
Cleanup(t) ==
    LET t1 == StopCurrentAudioStream(t)
    IN  [t1 EXCEPT !.silenceGenerator = "destroyed",
                   !.mixerWritable = FALSE,
                   !.killTimer = TRUE,
                   !.cleanedUp = TRUE]

\* the guard of the silence generator's 'data' handler
SilenceWrites(t) ==
    /\ t.exists
    /\ t.silenceGenerator = "running"
    /\ ~t.isReceivingAudio
    /\ t.mixerWritable

\* the guard of the decoder's 'data' handler, for the attached decoder
VoiceWrites(t) ==
    /\ t.exists
    /\ t.currentDecoder
    /\ t.mixerWritable


\* ------------------------------------------------------------ state file helpers
\* saveState(recording) of process p: the record written
SavedState(rec, p) ==
    [guildId |-> rec.guildId, outputDir |-> rec.outputDir, pid |-> p]

\* process.kill(pid, 0) does not throw
PidAlive(pid) == alive[pid]

\* checkExistingRecording() without the liveness probe: any record counts as running
ExistingRecordingNoProbe == registry

\* checkExistingRecording(): the state returned (NoState = null)
ExistingRecording ==
    IF registry # NoState /\ PidAlive(registry.pid) THEN registry ELSE NoState

\* checkExistingRecording(): the state file afterwards (a stale record is unlinked)
RegistryAfterCheck ==
    IF registry # NoState /\ ~PidAlive(registry.pid) THEN NoState ELSE registry

\* ------------------------------------------------------------ rec.userTracks
\* a handler that takes no member for a bot
IsBotNever(u) == FALSE

\* member.user.bot, this.client.users.cache.get(userId)?.bot
IsBot(u) == u \in Bots

\* _initializeUserTrack without its rec.userTracks.has(userId) guard
InitializeUserTrackNoGuard(tracks, u, rec) ==
    [tracks EXCEPT ![u] =
        UserJoined(NewTrack(now, tracks[u].spawns), rec.recordingStartTime,
                   rec.recordingStartTime)]

\* _initializeUserTrack(rec, userId)
InitializeUserTrack(tracks, u, rec) ==
    IF ~tracks[u].exists
    THEN [tracks EXCEPT ![u] =
            UserJoined(NewTrack(now, tracks[u].spawns), rec.recordingStartTime,
                       rec.recordingStartTime)]
    ELSE tracks

\* a start that makes no track for the members of the channel
InitialTracksNone(rec) == [u \in Members |-> NoTrack]

\* channel.members.forEach(member => if (!member.user.bot) _initializeUserTrack(...))
InitialTracks(rec) ==
    [u \in Members |->
        IF channel[u] = "rec" /\ ~IsBot(u)
        THEN UserJoined(NewTrack(now, 0), rec.recordingStartTime,
                        rec.recordingStartTime)
        ELSE NoTrack]

\* the voiceStateUpdate handler of rec, for one participant moving from old to new
OnVoiceStateUpdate(tracks, u, old, new, rec) ==
    IF old # "rec" /\ new # "rec" THEN tracks
    ELSE IF IsBot(u) THEN tracks
    ELSE IF old = "none" /\ new = "rec" THEN
        LET ts == InitializeUserTrack(tracks, u, rec)
        IN  IF ~ts[u].isPresent
            THEN [ts EXCEPT ![u] = UserJoined(@, now, rec.recordingStartTime)]
            ELSE ts
    ELSE IF old = "rec" /\ new = "none" THEN
        IF tracks[u].exists /\ tracks[u].isPresent
        THEN [tracks EXCEPT ![u] = UserLeft(@, now)]
        ELSE tracks
    ELSE tracks

\* the receiver.speaking 'start' handler of rec
OnSpeakingStart(tracks, u, rec) ==
    IF IsBot(u) THEN tracks
    ELSE LET ts == InitializeUserTrack(tracks, u, rec)
         IN  [ts EXCEPT ![u] = StartReceivingAudio(@)]

\* the receiver.speaking 'end' handler of rec
OnSpeakingEnd(tracks, u) ==
    IF tracks[u].exists THEN [tracks EXCEPT ![u] = StopReceivingAudio(@)] ELSE tracks

\* for (const [userId, trackManager] of rec.userTracks) trackManager.cleanup()
CleanupAll(tracks) ==
    [u \in Members |-> IF tracks[u].exists THEN Cleanup(tracks[u]) ELSE tracks[u]]

\* the rec that the closures of process p hold: this.activeRecording is cleared at
\* a stop, the listeners, the monitor and a draining stop keep their rec
RecOf(p) ==
    [guildId |-> startArgs[p].guildId, outputDir |-> startArgs[p].outputDir,
     recordingStartTime |-> startArgs[p].startTime]

NoTracks == [u \in Members |-> NoTrack]

\* ------------------------------------------------------------ other programs
\* the per-utterance recorder after setupRecording: userStreams holds no entry
\* for the user (0), no stream is subscribed and no encoder spawned
Encoders == 1..MaxEncoders

NoUtterance ==
    [userStreams |-> 0,
     spawned     |-> 0,
     audioStream |-> [k \in Encoders |-> "none"],
     ffmpeg      |-> [k \in Encoders |-> "none"]]

\* the PCM captures of recording.users before processRecording is called
Files == 1..MaxFiles

NoFile ==
    [pc |-> "idle", input |-> "missing", pcm |-> "missing", wav |-> "missing",
     ffmpeg |-> "none", killed |-> FALSE, code |-> NoExit, timer |-> FALSE]

NoConversion ==
    [started |-> FALSE, isRaspberryPi |-> FALSE, files |-> [f \in Files |-> NoFile]]

\* the scraper before page.evaluate has run
NoScrape ==
    [done |-> FALSE, rows |-> <<>>, team1_score |-> 0, team2_score |-> 0,
     players |-> <<>>]

\* the timers of the stop protocol in one process: the poll loop's 500 ms
\* setTimeout, the monitor's 1 s setInterval, and the 5 s setTimeout of each
\* _stopCurrentRecording in flight
TimerNames == {"poll", "monitor"} \cup DrainSources

NoTimers == [k \in TimerNames |-> NullTime]

\* ------------------------------------------------------------ initial state
\* every process has constructed its VoiceRecorder; nothing is recorded
Init ==
    /\ alive = [p \in Procs |-> TRUE]
    /\ isReady = [p \in Procs |-> FALSE]
    /\ shouldExit = [p \in Procs |-> FALSE]
    /\ activeRecording = [p \in Procs |-> NoRec]
    /\ userTracks = [p \in Procs |-> NoTracks]
    /\ connection = [p \in Procs |-> "none"]
    /\ recovering = [p \in Procs |-> FALSE]
    /\ sigPending = [p \in Procs |-> FALSE]
    /\ listening = [p \in Procs |-> FALSE]
    /\ monitor = [p \in Procs |-> FALSE]
    /\ draining = [p \in Procs |-> {}]
    /\ startPc = [p \in Procs |-> "idle"]
    /\ startArgs = [p \in Procs |-> NoArgs]
    /\ startResult = [p \in Procs |-> "none"]
    /\ stopPc = [p \in Procs |-> "idle"]
    /\ stopArgs = [p \in Procs |-> NoStop]
    /\ stopPolls = [p \in Procs |-> 0]
    /\ stopResult = [p \in Procs |-> "none"]
    /\ killFailed = [p \in Procs |-> FALSE]
    /\ registry = NoState
    /\ stopFlag = [d \in Dirs |-> FALSE]
    /\ dirExists = [d \in Dirs |-> "no"]
    /\ ffmpegOnPath \in BOOLEAN
    /\ channel = [u \in Members |-> "none"]
    /\ now = 0
    /\ cliExit = [p \in Procs |-> NoExit]
    /\ utterance = NoUtterance
    /\ conversion = NoConversion
    /\ scrape = NoScrape
    /\ timers = [p \in Procs |-> NoTimers]

\* ------------------------------------------------------------ process lifetime
\* init(): the client logged in
ClientReady(p) ==
    /\ alive[p] /\ ~isReady[p]
    /\ isReady' = [isReady EXCEPT ![p] = TRUE]
    /\ UNCHANGED <<alive, shouldExit, activeRecording, userTracks, connection,
                   recovering, sigPending, listening, monitor, draining, startPc,
                   startArgs, startResult, stopPc, stopArgs, stopPolls, stopResult,
                   killFailed, registry, stopFlag, dirExists, ffmpegOnPath, channel, cliExit, utterance, conversion, scrape, timers,
                   now>>

\* the process is gone: its timers, listeners, streams and pending calls with it
Gone(p) ==
    /\ alive' = [alive EXCEPT ![p] = FALSE]
    /\ activeRecording' = [activeRecording EXCEPT ![p] = NoRec]
    /\ userTracks' = [userTracks EXCEPT ![p] = NoTracks]
    /\ recovering' = [recovering EXCEPT ![p] = FALSE]
    /\ sigPending' = [sigPending EXCEPT ![p] = FALSE]
    /\ listening' = [listening EXCEPT ![p] = FALSE]
    /\ monitor' = [monitor EXCEPT ![p] = FALSE]
    /\ draining' = [draining EXCEPT ![p] = {}]
    /\ startPc' = [startPc EXCEPT ![p] = "idle"]
    /\ stopPc' = [stopPc EXCEPT ![p] = "idle"]
    /\ stopPolls' = [stopPolls EXCEPT ![p] = 0]

\* the process is killed outright (SIGKILL, power loss): no handler runs, the state
\* file stays
Crash(p) ==
    /\ alive[p]
    /\ Gone(p)
    /\ connection' = [connection EXCEPT ![p] = IF @ = "none" THEN @ ELSE "destroyed"]
    /\ UNCHANGED <<isReady, shouldExit, startArgs, startResult, stopArgs, stopResult,
                   killFailed, registry, stopFlag, dirExists, ffmpegOnPath, channel, cliExit, utterance, conversion, scrape, timers,
                   now>>

\* a SIGINT or SIGTERM is sent to the process from outside
SendSignal(p) ==
    /\ alive[p] /\ ~sigPending[p]
    /\ sigPending' = [sigPending EXCEPT ![p] = TRUE]
    /\ UNCHANGED <<alive, isReady, shouldExit, activeRecording, userTracks,
                   connection, recovering, listening, monitor, draining, startPc,
                   startArgs, startResult, stopPc, stopArgs, stopPolls, stopResult,
                   killFailed, registry, stopFlag, dirExists, ffmpegOnPath, channel, cliExit, utterance, conversion, scrape, timers,
                   now>>

\* ------------------------------------------------------------ _stopCurrentRecording
\* _stopCurrentRecording() up to its 5 s wait, called by src: false at once with no
\* active recording, else every track of rec.userTracks is cleaned up
BeginStopTracks(p) ==
    IF activeRecording[p] = NoRec THEN userTracks[p] ELSE CleanupAll(userTracks[p])

BeginStopDraining(p, src) ==
    IF activeRecording[p] = NoRec THEN draining[p] ELSE draining[p] \cup {src}

\* shutdown(signal) / the uncaughtException handler: recorder.cleanup() then
\* process.exit; with no active recording the process exits at once
ExitVia(p, src) ==
    IF activeRecording[p] = NoRec
    THEN /\ Gone(p)
         /\ connection' = [connection EXCEPT ![p] = IF @ = "none" THEN @ ELSE "destroyed"]
         /\ UNCHANGED <<startArgs, startResult, stopArgs, stopResult, killFailed,
                        registry, stopFlag>>
    ELSE /\ userTracks' = [userTracks EXCEPT ![p] = BeginStopTracks(p)]
         /\ draining' = [draining EXCEPT ![p] = BeginStopDraining(p, src)]
         /\ sigPending' = [sigPending EXCEPT ![p] = FALSE]
         /\ UNCHANGED <<alive, activeRecording, connection, recovering, listening,
                        monitor, startPc, startArgs, startResult, stopPc, stopArgs,
                        stopPolls, stopResult, killFailed, registry, stopFlag>>

\* the SIGINT/SIGTERM handler: shouldExit = true, then shutdown
HandleSignalStep(p) ==
    /\ alive[p] /\ sigPending[p]
    /\ shouldExit' = [shouldExit EXCEPT ![p] = TRUE]
    /\ ExitVia(p, "signal")
    /\ UNCHANGED <<isReady, dirExists, ffmpegOnPath, channel, cliExit, utterance, conversion, scrape, now>>

\* HandleSignal where no timer is followed
HandleSignal(p) ==
    /\ HandleSignalStep(p)
    /\ UNCHANGED timers

\* a stop sequence that leaves the stop flag where it is
StopFlagKept(flags, d) == flags

\* if (fs.existsSync(rec.stopFlagPath)) fs.unlinkSync(rec.stopFlagPath)
StopFlagRemoved(flags, d) == [flags EXCEPT ![d] = FALSE]

\* _stopCurrentRecording() after its 5 s wait: the connection is destroyed, the
\* session cleared, the state file and the stop flag removed; then the caller goes on
FinishStopStep(p, src) ==
    /\ alive[p] /\ src \in draining[p]
    /\ registry' = NoState
    /\ stopFlag' = StopFlagRemoved(stopFlag, RecOf(p).outputDir)
    /\ IF src \in {"signal", "uncaught"}
       THEN /\ Gone(p)
            /\ connection' = [connection EXCEPT ![p] = "destroyed"]
            /\ UNCHANGED stopResult
       ELSE /\ activeRecording' = [activeRecording EXCEPT ![p] = NoRec]
            /\ connection' = [connection EXCEPT ![p] = "destroyed"]
            /\ draining' = [draining EXCEPT ![p] = @ \ {src}]
            /\ stopPc' = [stopPc EXCEPT ![p] = IF src = "api" THEN "idle" ELSE @]
            /\ stopResult' = [stopResult EXCEPT ![p] = IF src = "api" THEN "true" ELSE @]
            /\ UNCHANGED <<alive, userTracks, recovering, sigPending, listening,
                           monitor, startPc, stopPolls>>
    /\ UNCHANGED <<isReady, shouldExit, startArgs, startResult, stopArgs, killFailed,
                   dirExists, ffmpegOnPath, channel, cliExit, utterance, conversion, scrape, now>>

\* FinishStop where no timer is followed
FinishStop(p, src) ==
    /\ FinishStopStep(p, src)
    /\ UNCHANGED timers

\* ------------------------------------------------------------ startRecording
\* startRecording(guildId, channelId, outputDir) up to "await this.checkFFmpeg()";
\* viaCli: it is called by the CLI's start command, which creates outputDir first
StartCall(p, g, d, viaCli) ==
    /\ alive[p] /\ startPc[p] = "idle" /\ startResult[p] = "none"
    /\ dirExists' = [dirExists EXCEPT
                        ![d] = IF viaCli /\ @ = "no" THEN "cli" ELSE @]
    /\ startArgs' = [startArgs EXCEPT ![p] =
                        [guildId |-> g, outputDir |-> d, startTime |-> 0,
                         log |-> IF isReady[p] THEN "none" ELSE "client not ready",
                         clearedStale |-> FALSE]]
    /\ IF ~isReady[p]
       THEN /\ startResult' = [startResult EXCEPT ![p] = "false"]
            /\ UNCHANGED startPc
       ELSE /\ startPc' = [startPc EXCEPT ![p] = "checkFFmpeg"]
            /\ UNCHANGED startResult
    /\ UNCHANGED <<alive, isReady, shouldExit, activeRecording, userTracks,
                   connection, recovering, sigPending, listening, monitor, draining,
                   stopPc, stopArgs, stopPolls, stopResult, killFailed, registry,
                   stopFlag, ffmpegOnPath, channel, cliExit, utterance, conversion, scrape, timers, now>>

\* checkFFmpeg() that resolves true whatever the spawn of ffmpeg does
CheckFFmpegSkipped == TRUE

\* checkFFmpeg(): 'ffmpeg -version' closed with code 0
CheckFFmpeg == ffmpegOnPath

\* startRecording from the answer of checkFFmpeg to "await entersState(connection,
\* Ready)": the encoder check, checkExistingRecording, the guild, channel and
\* permission checks (resolvable says they pass), joinVoiceChannel
StartChecks(p, resolvable) ==
    /\ alive[p] /\ startPc[p] = "checkFFmpeg"
    /\ IF ~CheckFFmpeg
       THEN /\ startResult' = [startResult EXCEPT ![p] = "false"]
            /\ startPc' = [startPc EXCEPT ![p] = "idle"]
            /\ startArgs' = [startArgs EXCEPT ![p].log = "FFmpeg not found on PATH"]
            /\ UNCHANGED <<registry, connection>>
       ELSE IF ExistingRecording # NoState
       THEN /\ startResult' = [startResult EXCEPT ![p] = "false"]
            /\ startPc' = [startPc EXCEPT ![p] = "idle"]
            /\ startArgs' = [startArgs EXCEPT
                                ![p].log = "another recording is already running"]
            /\ UNCHANGED <<registry, connection>>
       ELSE IF ~resolvable
       THEN /\ registry' = RegistryAfterCheck
            /\ startResult' = [startResult EXCEPT ![p] = "false"]
            /\ startPc' = [startPc EXCEPT ![p] = "idle"]
            /\ startArgs' = [startArgs EXCEPT
                                ![p].log = "guild, channel or permission missing",
                                ![p].clearedStale = (registry # RegistryAfterCheck)]
            /\ UNCHANGED connection
       ELSE /\ registry' = RegistryAfterCheck
            /\ connection' = [connection EXCEPT ![p] = "signalling"]
            /\ startPc' = [startPc EXCEPT ![p] = "entersState"]
            /\ startArgs' = [startArgs EXCEPT
                                ![p].clearedStale = (registry # RegistryAfterCheck)]
            /\ UNCHANGED startResult
    /\ UNCHANGED <<alive, isReady, shouldExit, activeRecording, userTracks,
                   recovering, sigPending, listening, monitor, draining, stopPc,
                   stopArgs, stopPolls, stopResult, killFailed, stopFlag, dirExists,
                   ffmpegOnPath, channel, cliExit, utterance, conversion, scrape, timers, now>>

\* the connection became Ready within 20 s: the rest of startRecording
StartReadyStep(p) ==
    /\ alive[p] /\ startPc[p] = "entersState"
    /\ LET rec == [guildId |-> startArgs[p].guildId,
                   outputDir |-> startArgs[p].outputDir,
                   recordingStartTime |-> now]
           tracks == InitialTracks(rec)
       IN  /\ activeRecording' = [activeRecording EXCEPT ![p] = rec]
           /\ startArgs' = [startArgs EXCEPT ![p].startTime = now]
           /\ dirExists' = [dirExists EXCEPT
                               ![rec.outputDir] = IF @ = "no" THEN "startRecording" ELSE @]
           /\ registry' = SavedState(rec, p)
           /\ userTracks' = [userTracks EXCEPT ![p] = tracks]
    /\ connection' = [connection EXCEPT ![p] = "ready"]
    /\ listening' = [listening EXCEPT ![p] = TRUE]
    /\ monitor' = [monitor EXCEPT ![p] = TRUE]
    /\ startResult' = [startResult EXCEPT ![p] = "true"]
    /\ startPc' = [startPc EXCEPT ![p] = "idle"]
    /\ UNCHANGED <<alive, isReady, shouldExit, recovering, sigPending, draining,
                   stopPc, stopArgs, stopPolls, stopResult, killFailed, stopFlag,
                   ffmpegOnPath, channel, cliExit, utterance, conversion, scrape, now>>

\* StartReady where no timer is followed
StartReady(p) ==
    /\ StartReadyStep(p)
    /\ UNCHANGED timers

\* the catch of entersState without its connection.destroy()
StartTimeoutKeepsConnection(p) ==
    /\ alive[p] /\ startPc[p] = "entersState"
    /\ startResult' = [startResult EXCEPT ![p] = "false"]
    /\ startPc' = [startPc EXCEPT ![p] = "idle"]
    /\ startArgs' = [startArgs EXCEPT ![p].log = "failed to enter ready state"]
    /\ UNCHANGED <<alive, isReady, shouldExit, activeRecording, userTracks,
                   recovering, sigPending, listening, monitor, draining,
                   stopPc, stopArgs, stopPolls, stopResult, killFailed, registry,
                   stopFlag, dirExists, ffmpegOnPath, channel, cliExit, utterance, conversion, scrape, timers, now, connection>>

\* entersState(connection, Ready, 20000) rejected: the connection is destroyed
StartTimeout(p) ==
    /\ alive[p] /\ startPc[p] = "entersState"
    /\ connection' = [connection EXCEPT ![p] = "destroyed"]
    /\ startResult' = [startResult EXCEPT ![p] = "false"]
    /\ startPc' = [startPc EXCEPT ![p] = "idle"]
    /\ startArgs' = [startArgs EXCEPT ![p].log = "failed to enter ready state"]
    /\ UNCHANGED <<alive, isReady, shouldExit, activeRecording, userTracks,
                   recovering, sigPending, listening, monitor, draining,
                   stopPc, stopArgs, stopPolls, stopResult, killFailed, registry,
                   stopFlag, dirExists, ffmpegOnPath, channel, cliExit, utterance, conversion, scrape, timers, now>>

\* ------------------------------------------------------------ the Disconnected handler
\* VoiceConnectionStatus.Disconnected: the handler starts its 5 s wait
Disconnected(p) ==
    /\ alive[p] /\ connection[p] = "ready" /\ ~recovering[p]
    /\ connection' = [connection EXCEPT ![p] = "disconnected"]
    /\ recovering' = [recovering EXCEPT ![p] = TRUE]
    /\ UNCHANGED <<alive, isReady, shouldExit, activeRecording, userTracks,
                   sigPending, listening, monitor, draining, startPc, startArgs,
                   startResult, stopPc, stopArgs, stopPolls, stopResult, killFailed,
                   registry, stopFlag, dirExists, ffmpegOnPath, channel, cliExit, utterance, conversion, scrape, timers, now>>

\* a reconnection that detaches every source and saves the state again
ReconnectedSavesAgain(p) ==
    /\ alive[p] /\ recovering[p] /\ connection[p] = "disconnected"
    /\ connection' = [connection EXCEPT ![p] = "ready"]
    /\ recovering' = [recovering EXCEPT ![p] = FALSE]
    /\ registry' = IF activeRecording[p] = NoRec THEN registry
                   ELSE SavedState(activeRecording[p], p)
    /\ userTracks' = [userTracks EXCEPT ![p] =
            [u \in Members |-> StopCurrentAudioStream(@[u])]]
    /\ UNCHANGED <<alive, isReady, shouldExit, activeRecording,
                   sigPending, listening, monitor, draining, startPc, startArgs,
                   startResult, stopPc, stopArgs, stopPolls, stopResult, killFailed,
                   stopFlag, dirExists, ffmpegOnPath, channel, cliExit, utterance, conversion, scrape, timers, now>>

\* the connection entered Signalling or Connecting within 5 s: the handler logs
\* and returns
Reconnected(p) ==
    /\ alive[p] /\ recovering[p] /\ connection[p] = "disconnected"
    /\ connection' = [connection EXCEPT ![p] = "ready"]
    /\ recovering' = [recovering EXCEPT ![p] = FALSE]
    /\ UNCHANGED <<alive, isReady, shouldExit, activeRecording, userTracks,
                   sigPending, listening, monitor, draining, startPc, startArgs,
                   startResult, stopPc, stopArgs, stopPolls, stopResult, killFailed,
                   registry, stopFlag, dirExists, ffmpegOnPath, channel, cliExit, utterance, conversion, scrape, timers, now>>

\* it did not: connection.destroy(), activeRecording = null, saveState(null)
ReconnectFailed(p) ==
    /\ alive[p] /\ recovering[p]
    /\ connection' = [connection EXCEPT ![p] = "destroyed"]
    /\ recovering' = [recovering EXCEPT ![p] = FALSE]
    /\ activeRecording' = [activeRecording EXCEPT ![p] = NoRec]
    /\ registry' = NoState
    /\ UNCHANGED <<alive, isReady, shouldExit, userTracks, sigPending, listening,
                   monitor, draining, startPc, startArgs, startResult, stopPc,
                   stopArgs, stopPolls, stopResult, killFailed, stopFlag, dirExists,
                   ffmpegOnPath, channel, cliExit, utterance, conversion, scrape, timers, now>>

\* ------------------------------------------------------------ stopRecording
\* a test of the state that takes a record of any guild for the guild asked for
StateClearedWhenEmpty(s, g) == s = NoState

\* the poll of stopRecording sees the state cleared: if (!s || s.guildId !== guildId)
StateCleared(s, g) == s = NoState \/ s.guildId # g

\* stopArgs: the guildId of the last stopRecording call, with the outputDir and pid
\* of the state it loaded, and whether its writeFileSync of the stop flag returned
\* stopRecording(guildId) up to its first await: the local stop begins, or the
\* state file is read and the stop flag written; writeOk is FALSE when
\* writeFileSync throws, which is logged and ignored
StopCallStep(p, g, writeOk) ==
    /\ alive[p] /\ stopPc[p] = "idle"
    /\ IF activeRecording[p] # NoRec /\ activeRecording[p].guildId = g
       THEN /\ userTracks' = [userTracks EXCEPT ![p] = BeginStopTracks(p)]
            /\ draining' = [draining EXCEPT ![p] = BeginStopDraining(p, "api")]
            /\ stopPc' = [stopPc EXCEPT ![p] = "draining"]
            /\ stopArgs' = [stopArgs EXCEPT ![p] = [NoStop EXCEPT !.guildId = g]]
            /\ UNCHANGED <<stopPolls, stopResult, stopFlag>>
       ELSE IF StateCleared(registry, g)
       THEN /\ stopResult' = [stopResult EXCEPT ![p] = "false"]
            /\ stopArgs' = [stopArgs EXCEPT ![p] = [NoStop EXCEPT !.guildId = g]]
            /\ UNCHANGED <<userTracks, draining, stopPc, stopPolls, stopFlag>>
       ELSE /\ stopFlag' = [stopFlag EXCEPT ![registry.outputDir] = @ \/ writeOk]
            /\ stopArgs' = [stopArgs EXCEPT ![p] =
                    [guildId |-> g, outputDir |-> registry.outputDir,
                     pid |-> registry.pid, wrote |-> writeOk]]
            /\ stopPolls' = [stopPolls EXCEPT ![p] = 0]
            /\ stopPc' = [stopPc EXCEPT ![p] = "polling"]
            /\ UNCHANGED <<userTracks, draining, stopResult>>
    /\ killFailed' = [killFailed EXCEPT ![p] = FALSE]
    /\ UNCHANGED <<alive, isReady, shouldExit, activeRecording, connection,
                   recovering, sigPending, listening, monitor, startPc, startArgs,
                   startResult, registry, dirExists, ffmpegOnPath, channel, cliExit, utterance, conversion, scrape, now>>

\* StopCall where no timer is followed
StopCall(p, g, writeOk) ==
    /\ StopCallStep(p, g, writeOk)
    /\ UNCHANGED timers

\* a turn of the poll loop that does not count
StopPollForever(p) ==
    /\ alive[p] /\ stopPc[p] = "polling" /\ stopPolls[p] < STOP_POLLS
    /\ IF StateCleared(registry, stopArgs[p].guildId)
       THEN /\ stopResult' = [stopResult EXCEPT ![p] = "true"]
            /\ stopPc' = [stopPc EXCEPT ![p] = "idle"]
            /\ stopPolls' = [stopPolls EXCEPT ![p] = 0]
       ELSE UNCHANGED <<stopPolls, stopResult, stopPc>>
    /\ UNCHANGED <<alive, isReady, shouldExit, activeRecording, userTracks,
                   connection, recovering, sigPending, listening, monitor, draining,
                   startPc, startArgs, startResult, stopArgs, killFailed, registry,
                   stopFlag, dirExists, ffmpegOnPath, channel, cliExit, utterance, conversion, scrape, timers, now>>

\* one turn of the poll loop: 500 ms later the state file is read again
StopPollStep(p) ==
    /\ alive[p] /\ stopPc[p] = "polling" /\ stopPolls[p] < STOP_POLLS
    /\ IF StateCleared(registry, stopArgs[p].guildId)
       THEN /\ stopResult' = [stopResult EXCEPT ![p] = "true"]
            /\ stopPc' = [stopPc EXCEPT ![p] = "idle"]
            /\ stopPolls' = [stopPolls EXCEPT ![p] = 0]
       ELSE /\ stopPolls' = [stopPolls EXCEPT ![p] = @ + 1]
            /\ UNCHANGED <<stopResult, stopPc>>
    /\ UNCHANGED <<alive, isReady, shouldExit, activeRecording, userTracks,
                   connection, recovering, sigPending, listening, monitor, draining,
                   startPc, startArgs, startResult, stopArgs, killFailed, registry,
                   stopFlag, dirExists, ffmpegOnPath, channel, cliExit, utterance, conversion, scrape, now>>

\* StopPoll where no timer is followed
StopPoll(p) ==
    /\ StopPollStep(p)
    /\ UNCHANGED timers

\* the escalation without its saveState(null)
StopEscalateNoSave(p) ==
    /\ alive[p] /\ stopPc[p] = "polling" /\ stopPolls[p] = STOP_POLLS
    /\ IF PidAlive(stopArgs[p].pid)
       THEN /\ sigPending' = [sigPending EXCEPT ![stopArgs[p].pid] = TRUE]
            /\ stopResult' = [stopResult EXCEPT ![p] = "true"]
            /\ UNCHANGED killFailed
       ELSE /\ killFailed' = [killFailed EXCEPT ![p] = TRUE]
            /\ stopResult' = [stopResult EXCEPT ![p] = "false"]
            /\ UNCHANGED sigPending
    /\ stopPc' = [stopPc EXCEPT ![p] = "idle"]
    /\ stopPolls' = [stopPolls EXCEPT ![p] = 0]
    /\ UNCHANGED <<alive, isReady, shouldExit, activeRecording, userTracks,
                   connection, recovering, listening, monitor, draining, startPc,
                   startArgs, startResult, stopArgs, stopFlag, dirExists,
                   ffmpegOnPath, channel, cliExit, utterance, conversion, scrape, timers, now, registry>>

\* the escalation without the loop before it
StopEscalateAnyPoll(p) ==
    /\ alive[p] /\ stopPc[p] = "polling" /\ stopPolls[p] <= STOP_POLLS
    /\ IF PidAlive(stopArgs[p].pid)
       THEN /\ sigPending' = [sigPending EXCEPT ![stopArgs[p].pid] = TRUE]
            /\ registry' = NoState
            /\ stopResult' = [stopResult EXCEPT ![p] = "true"]
            /\ UNCHANGED killFailed
       ELSE /\ killFailed' = [killFailed EXCEPT ![p] = TRUE]
            /\ stopResult' = [stopResult EXCEPT ![p] = "false"]
            /\ UNCHANGED <<sigPending, registry>>
    /\ stopPc' = [stopPc EXCEPT ![p] = "idle"]
    /\ stopPolls' = [stopPolls EXCEPT ![p] = 0]
    /\ UNCHANGED <<alive, isReady, shouldExit, activeRecording, userTracks,
                   connection, recovering, listening, monitor, draining, startPc,
                   startArgs, startResult, stopArgs, stopFlag, dirExists,
                   ffmpegOnPath, channel, cliExit, utterance, conversion, scrape, timers, now>>

\* after the loop: process.kill(state.pid), then saveState(null) and true, or false
\* when the kill throws
StopEscalateStep(p) ==
    /\ alive[p] /\ stopPc[p] = "polling" /\ stopPolls[p] = STOP_POLLS
    /\ IF PidAlive(stopArgs[p].pid)
       THEN /\ sigPending' = [sigPending EXCEPT ![stopArgs[p].pid] = TRUE]
            /\ registry' = NoState
            /\ stopResult' = [stopResult EXCEPT ![p] = "true"]
            /\ UNCHANGED killFailed
       ELSE /\ killFailed' = [killFailed EXCEPT ![p] = TRUE]
            /\ stopResult' = [stopResult EXCEPT ![p] = "false"]
            /\ UNCHANGED <<sigPending, registry>>
    /\ stopPc' = [stopPc EXCEPT ![p] = "idle"]
    /\ stopPolls' = [stopPolls EXCEPT ![p] = 0]
    /\ UNCHANGED <<alive, isReady, shouldExit, activeRecording, userTracks,
                   connection, recovering, listening, monitor, draining, startPc,
                   startArgs, startResult, stopArgs, stopFlag, dirExists,
                   ffmpegOnPath, channel, cliExit, utterance, conversion, scrape, now>>

\* StopEscalate where no timer is followed
StopEscalate(p) ==
    /\ StopEscalateStep(p)
    /\ UNCHANGED timers

\* ------------------------------------------------------------ _monitorStopFlag
\* one firing of the 1 s interval
MonitorPollStep(p) ==
    /\ alive[p] /\ monitor[p]
    /\ \/ shouldExit[p]
       \/ stopFlag[RecOf(p).outputDir]
    /\ monitor' = [monitor EXCEPT ![p] = FALSE]
    /\ IF shouldExit[p]
       THEN UNCHANGED <<userTracks, draining>>
       ELSE /\ userTracks' = [userTracks EXCEPT ![p] = BeginStopTracks(p)]
            /\ draining' = [draining EXCEPT ![p] = BeginStopDraining(p, "flag")]
    /\ UNCHANGED <<alive, isReady, shouldExit, activeRecording, connection,
                   recovering, sigPending, listening, startPc, startArgs,
                   startResult, stopPc, stopArgs, stopPolls, stopResult, killFailed,
                   registry, stopFlag, dirExists, ffmpegOnPath, channel, cliExit, utterance, conversion, scrape, now>>

\* MonitorPoll where no timer is followed
MonitorPoll(p) ==
    /\ MonitorPollStep(p)
    /\ UNCHANGED timers

\* ------------------------------------------------------------ session-layer events
\* a write of the step may not take a sink past the model's frame bound
WithinFrames(tracks) ==
    \A u \in Users : tracks[u].bytes <= MaxFrames * BytesPerFrame

\* participant u moves to voice channel new; every process whose voiceStateUpdate
\* listener is registered handles the event
VoiceStateUpdate(u, new) ==
    /\ channel[u] # new
    /\ channel' = [channel EXCEPT ![u] = new]
    /\ LET after == [p \in Procs |->
                        IF alive[p] /\ listening[p]
                        THEN OnVoiceStateUpdate(userTracks[p], u, channel[u], new, RecOf(p))
                        ELSE userTracks[p]]
       IN  /\ \A p \in Procs : WithinFrames(after[p])
           /\ userTracks' = after
    /\ UNCHANGED <<alive, isReady, shouldExit, activeRecording, connection,
                   recovering, sigPending, listening, monitor, draining, startPc,
                   startArgs, startResult, stopPc, stopArgs, stopPolls, stopResult,
                   killFailed, registry, stopFlag, dirExists, ffmpegOnPath, now,
                   cliExit, utterance, conversion, scrape, timers>>

\* receiver.speaking 'start' for u on the connection of p
SpeakingStart(p, u) ==
    /\ alive[p] /\ listening[p] /\ connection[p] = "ready"
    /\ channel[u] = "rec"
    /\ userTracks[p][u].subscribed < MaxStreams
    /\ userTracks' = [userTracks EXCEPT ![p] = OnSpeakingStart(@, u, RecOf(p))]
    /\ UNCHANGED <<alive, isReady, shouldExit, activeRecording, connection,
                   recovering, sigPending, listening, monitor, draining, startPc,
                   startArgs, startResult, stopPc, stopArgs, stopPolls, stopResult,
                   killFailed, registry, stopFlag, dirExists, ffmpegOnPath, channel, cliExit, utterance, conversion, scrape, timers,
                   now>>

\* receiver.speaking 'end' for u on the connection of p
SpeakingEnd(p, u) ==
    /\ alive[p] /\ listening[p] /\ connection[p] = "ready"
    /\ userTracks[p][u].currentOpusStream
    /\ userTracks' = [userTracks EXCEPT ![p] = OnSpeakingEnd(@, u)]
    /\ UNCHANGED <<alive, isReady, shouldExit, activeRecording, connection,
                   recovering, sigPending, listening, monitor, draining, startPc,
                   startArgs, startResult, stopPc, stopArgs, stopPolls, stopResult,
                   killFailed, registry, stopFlag, dirExists, ffmpegOnPath, channel, cliExit, utterance, conversion, scrape, timers,
                   now>>

\* the attached opus stream emits 'end' (1 s of silence) or 'error', or the attached
\* decoder emits 'error': each handler calls _stopCurrentAudioStream
StreamEnds(p, u) ==
    /\ alive[p]
    /\ userTracks[p][u].currentOpusStream
    /\ userTracks' = [userTracks EXCEPT ![p][u] = StopCurrentAudioStream(@)]
    /\ UNCHANGED <<alive, isReady, shouldExit, activeRecording, connection,
                   recovering, sigPending, listening, monitor, draining, startPc,
                   startArgs, startResult, stopPc, stopArgs, stopPolls, stopResult,
                   killFailed, registry, stopFlag, dirExists, ffmpegOnPath, channel, cliExit, utterance, conversion, scrape, timers,
                   now>>

\* A stream or decoder that startReceivingAudio attached earlier and that the track
\* no longer references: the streams 1..subscribed but the attached one.
HasDetachedSource(t) ==
    /\ t.exists
    /\ t.subscribed >= 1
    /\ t.currentOpusStream => t.subscribed >= 2

\* a detached opus stream emits 'end' or 'error', or a detached decoder emits
\* 'error': the handler registered on it by startReceivingAudio calls
\* this._stopCurrentAudioStream().  staleHandled keeps that such a handler has run.
StaleStreamEvent(p, u) ==
    /\ alive[p]
    /\ HasDetachedSource(userTracks[p][u])
    /\ userTracks' = [userTracks EXCEPT ![p][u] =
            [StopCurrentAudioStream(@) EXCEPT !.staleHandled = TRUE]]
    /\ UNCHANGED <<alive, isReady, shouldExit, activeRecording, connection,
                   recovering, sigPending, listening, monitor, draining, startPc,
                   startArgs, startResult, stopPc, stopArgs, stopPolls, stopResult,
                   killFailed, registry, stopFlag, dirExists, ffmpegOnPath, channel,
                   cliExit, utterance, conversion, scrape, timers, now>>

\* a detached decoder emits 'data': its handler writes the chunk to mixerStream if
\* that is writable
StaleDecoderData(p, u) ==
    /\ alive[p]
    /\ HasDetachedSource(userTracks[p][u])
    /\ userTracks[p][u].bytes < MaxFrames * BytesPerFrame
    /\ userTracks' = [userTracks EXCEPT ![p][u] =
            [MixerWrite(@, BytesPerFrame, "stale") EXCEPT !.staleHandled = TRUE]]
    /\ UNCHANGED <<alive, isReady, shouldExit, activeRecording, connection,
                   recovering, sigPending, listening, monitor, draining, startPc,
                   startArgs, startResult, stopPc, stopArgs, stopPolls, stopResult,
                   killFailed, registry, stopFlag, dirExists, ffmpegOnPath, channel,
                   cliExit, utterance, conversion, scrape, timers, now>>

\* ------------------------------------------------------------ the encoder process
\* _checkOutputFile() in the 'close' handler of the encoder, which left a file of
\* size bytes, or none (NoSize): the size is logged, a small file gets a warning,
\* and the file stays as it is.  fileSize is the file after the handler.
CheckOutputFile(t, size) == [t EXCEPT !.fileSize = size]

\* the encoder of u's track dies on its own: spawn error, crash, non-zero exit
EncoderFails(p, u, size) ==
    /\ alive[p]
    /\ userTracks[p][u].ffmpegProcess = "running"
    /\ userTracks[p][u].mixerWritable
    /\ userTracks' = [userTracks EXCEPT ![p][u] =
            CheckOutputFile([@ EXCEPT !.ffmpegProcess = "failed"], size)]
    /\ UNCHANGED <<alive, isReady, shouldExit, activeRecording, connection,
                   recovering, sigPending, listening, monitor, draining, startPc,
                   startArgs, startResult, stopPc, stopArgs, stopPolls, stopResult,
                   killFailed, registry, stopFlag, dirExists, ffmpegOnPath, channel, cliExit, utterance, conversion, scrape, timers,
                   now>>

\* the encoder read the end of its input (mixerStream.end()) and exits
EncoderExits(p, u, size) ==
    /\ alive[p]
    /\ userTracks[p][u].ffmpegProcess = "running"
    /\ ~userTracks[p][u].mixerWritable
    /\ userTracks' = [userTracks EXCEPT ![p][u] =
            CheckOutputFile([@ EXCEPT !.ffmpegProcess = "exited", !.piped = FALSE],
                            size)]
    /\ UNCHANGED <<alive, isReady, shouldExit, activeRecording, connection,
                   recovering, sigPending, listening, monitor, draining, startPc,
                   startArgs, startResult, stopPc, stopArgs, stopPolls, stopResult,
                   killFailed, registry, stopFlag, dirExists, ffmpegOnPath, channel, cliExit, utterance, conversion, scrape, timers,
                   now>>

\* the runtime saw the exit of the failed encoder before any write failed: its
\* stdin is destroyed and mixerStream unpiped
StdinCloses(p, u) ==
    /\ alive[p]
    /\ userTracks[p][u].ffmpegProcess = "failed"
    /\ userTracks[p][u].piped
    /\ userTracks' = [userTracks EXCEPT ![p][u].piped = FALSE]
    /\ UNCHANGED <<alive, isReady, shouldExit, activeRecording, connection,
                   recovering, sigPending, listening, monitor, draining, startPc,
                   startArgs, startResult, stopPc, stopArgs, stopPolls, stopResult,
                   killFailed, registry, stopFlag, dirExists, ffmpegOnPath, channel, cliExit, utterance, conversion, scrape, timers,
                   now>>

\* a frame piped into the stdin of the failed encoder fails (EPIPE): ffmpegProcess.stdin
\* has no 'error' listener, so the error is an uncaughtException, whose handler runs
\* recorder.cleanup() and process.exit(1)
StdinWriteError(p, u) ==
    /\ alive[p]
    /\ userTracks[p][u].ffmpegProcess = "failed"
    /\ userTracks[p][u].piped
    /\ SilenceWrites(userTracks[p][u]) \/ VoiceWrites(userTracks[p][u])
    /\ "uncaught" \notin draining[p]
    /\ ExitVia(p, "uncaught")
    /\ UNCHANGED <<isReady, shouldExit, dirExists, ffmpegOnPath, channel, cliExit, utterance, conversion, scrape, timers, now>>

\* a 2 s timer whose SIGTERM reaches an encoder that has exited
KillTimerKillsExited(p, u, size) ==
    /\ alive[p]
    /\ userTracks[p][u].killTimer
    /\ userTracks' = [userTracks EXCEPT ![p][u] =
            CheckOutputFile([@ EXCEPT !.killTimer = FALSE,
                                      !.ffmpegProcess = "killed",
                                      !.piped = FALSE], size)]
    /\ UNCHANGED <<alive, isReady, shouldExit, activeRecording, connection,
                   recovering, sigPending, listening, monitor, draining, startPc,
                   startArgs, startResult, stopPc, stopArgs, stopPolls, stopResult,
                   killFailed, registry, stopFlag, dirExists, ffmpegOnPath, channel,
                   cliExit, utterance, conversion, scrape, timers, now>>

\* the 2 s timer of cleanup(): ffmpegProcess.kill('SIGTERM') unless
\* ffmpegProcess.killed; kill() on a child that has exited sends nothing
KillTimer(p, u, size) ==
    /\ alive[p]
    /\ userTracks[p][u].killTimer
    /\ userTracks' = [userTracks EXCEPT ![p][u] =
            IF @.ffmpegProcess = "running"
            THEN CheckOutputFile([@ EXCEPT !.killTimer = FALSE,
                                           !.ffmpegProcess = "killed",
                                           !.piped = FALSE], size)
            ELSE [@ EXCEPT !.killTimer = FALSE]]
    /\ UNCHANGED <<alive, isReady, shouldExit, activeRecording, connection,
                   recovering, sigPending, listening, monitor, draining, startPc,
                   startArgs, startResult, stopPc, stopArgs, stopPolls, stopResult,
                   killFailed, registry, stopFlag, dirExists, ffmpegOnPath, channel, cliExit, utterance, conversion, scrape, timers,
                   now>>

\* ------------------------------------------------------------ the CLI's commands
\* Each command runs once recorder.init() has resolved.
\* the start command after startRecording returned false: recorder.cleanup(), with
\* no active recording, then process.exit(1).  After true it sets an interval and
\* the process stays.
CliStartFailed(p) ==
    /\ alive[p] /\ isReady[p]
    /\ startPc[p] = "idle" /\ startResult[p] = "false"
    /\ activeRecording[p] = NoRec
    /\ Gone(p)
    /\ connection' = [connection EXCEPT ![p] = IF @ = "none" THEN @ ELSE "destroyed"]
    /\ cliExit' = [cliExit EXCEPT ![p] = 1]
    /\ UNCHANGED <<utterance, conversion, scrape, timers>>
    /\ UNCHANGED <<isReady, shouldExit, startArgs, startResult, stopArgs, stopResult,
                   killFailed, registry, stopFlag, dirExists, ffmpegOnPath, channel,
                   now>>

\* the stop command after stopRecording returned, true or false: the result is
\* printed, then recorder.cleanup() and process.exit(0).  The process has run no
\* start command, so it has no active recording.
CliStopDone(p) ==
    /\ alive[p] /\ isReady[p]
    /\ stopPc[p] = "idle" /\ stopResult[p] # "none"
    /\ startPc[p] = "idle" /\ startResult[p] = "none"
    /\ Gone(p)
    /\ UNCHANGED connection
    /\ cliExit' = [cliExit EXCEPT ![p] = 0]
    /\ UNCHANGED <<utterance, conversion, scrape, timers>>
    /\ UNCHANGED <<isReady, shouldExit, startArgs, startResult, stopArgs, stopResult,
                   killFailed, registry, stopFlag, dirExists, ffmpegOnPath, channel,
                   now>>

\* the encoder reads one frame from its stdin, fed by mixerStream.pipe: the oldest
\* bytes it has not read
EncoderReads(p, u) ==
    /\ alive[p]
    /\ userTracks[p][u].exists
    /\ userTracks[p][u].ffmpegProcess = "running" /\ userTracks[p][u].piped
    /\ userTracks[p][u].encoded < userTracks[p][u].bytes
    /\ userTracks' = [userTracks EXCEPT ![p][u].encoded = @ + BytesPerFrame]
    /\ UNCHANGED <<alive, isReady, shouldExit, activeRecording, connection,
                   recovering, sigPending, listening, monitor, draining, startPc,
                   startArgs, startResult, stopPc, stopArgs, stopPolls, stopResult,
                   killFailed, registry, stopFlag, dirExists, ffmpegOnPath, channel,
                   cliExit, utterance, conversion, scrape, timers, now>>

\* ------------------------------------------------------------ frames and time
\* 20 ms of wall-clock time pass
Tick ==
    /\ now < MaxTicks * FramePeriodMs
    /\ now' = now + FramePeriodMs
    /\ UNCHANGED <<alive, isReady, shouldExit, activeRecording, userTracks,
                   connection, recovering, sigPending, listening, monitor, draining,
                   startPc, startArgs, startResult, stopPc, stopArgs, stopPolls,
                   stopResult, killFailed, registry, stopFlag, dirExists,
                   ffmpegOnPath, channel, cliExit, utterance, conversion, scrape, timers>>

\* the silence generator of u's track emits 'data': SilenceGenerator._read pushes
\* one frame whenever the stream asks, no timer paces it
SilenceData(p, u) ==
    /\ alive[p]
    /\ SilenceWrites(userTracks[p][u])
    /\ userTracks[p][u].bytes < MaxFrames * BytesPerFrame
    /\ userTracks' = [userTracks EXCEPT ![p][u] =
            MixerWrite(@, SilenceBuffer.length, "silence")]
    /\ UNCHANGED <<alive, isReady, shouldExit, activeRecording, connection,
                   recovering, sigPending, listening, monitor, draining, startPc,
                   startArgs, startResult, stopPc, stopArgs, stopPolls, stopResult,
                   killFailed, registry, stopFlag, dirExists, ffmpegOnPath, channel, cliExit, utterance, conversion, scrape, timers,
                   now>>

\* the attached decoder emits 'data': one decoded frame
DecoderData(p, u) ==
    /\ alive[p]
    /\ VoiceWrites(userTracks[p][u])
    /\ userTracks[p][u].bytes < MaxFrames * BytesPerFrame
    /\ userTracks' = [userTracks EXCEPT ![p][u] = MixerWrite(@, BytesPerFrame, "voice")]
    /\ UNCHANGED <<alive, isReady, shouldExit, activeRecording, connection,
                   recovering, sigPending, listening, monitor, draining, startPc,
                   startArgs, startResult, stopPc, stopArgs, stopPolls, stopResult,
                   killFailed, registry, stopFlag, dirExists, ffmpegOnPath, channel, cliExit, utterance, conversion, scrape, timers,
                   now>>

\* ------------------------------------------------------------ specifications
Recorder == "p1"
Requester == "p2"
Speaker == "u1"

\* The registry protocol: both processes start sessions, the requester stops them
\* (its own locally, the other's through the stop flag and the kill), processes die.
\* The recorded channel stays empty, so no track exists.
Next ==
    \/ \E p \in Procs : ClientReady(p)
    \/ \E p \in Procs : Crash(p)
    \/ SendSignal(Recorder)
    \/ \E p \in Procs : HandleSignal(p)
    \/ \E p \in Procs, g \in Guilds, d \in Dirs, viaCli \in BOOLEAN :
            StartCall(p, g, d, viaCli)
    \/ \E p \in Procs, resolvable \in BOOLEAN : StartChecks(p, resolvable)
    \/ \E p \in Procs : StartReady(p)
    \/ \E p \in Procs : StartTimeout(p)
    \/ \E p \in Procs : Disconnected(p)
    \/ \E p \in Procs : Reconnected(p)
    \/ \E p \in Procs : ReconnectFailed(p)
    \/ \E g \in Guilds, writeOk \in BOOLEAN : StopCall(Requester, g, writeOk)
    \/ StopPoll(Requester)
    \/ StopEscalate(Requester)
    \/ \E p \in Procs : MonitorPoll(p)
    \/ \E p \in Procs, src \in DrainSources : FinishStop(p, src)

Spec == Init /\ [][Next]_vars

\* One recording process with its participants, its connection and its encoders,
\* stopped from inside the process or by a signal.  The participants join and leave
\* the recorded channel; moves through another channel are followed in SpecClock.
NextSession ==
    \/ ClientReady(Recorder)
    \/ StartCall(Recorder, "g1", "d1", TRUE)
    \/ StartChecks(Recorder, TRUE)
    \/ StartReady(Recorder)
    \/ Disconnected(Recorder)
    \/ Reconnected(Recorder)
    \/ ReconnectFailed(Recorder)
    \/ StopCall(Recorder, "g1", TRUE)
    \/ \E src \in DrainSources : FinishStop(Recorder, src)
    \/ \E u \in Users, new \in {"none", "rec"} : VoiceStateUpdate(u, new)
    \/ \E u \in Users : SpeakingStart(Recorder, u)
    \/ \E u \in Users : SpeakingEnd(Recorder, u)
    \/ \E u \in Users : StreamEnds(Recorder, u)
    \/ \E u \in Users : EncoderFails(Recorder, u, NoSize)
    \/ \E u \in Users : EncoderExits(Recorder, u, MIN_FILE_SIZE)
    \/ \E u \in Users : StdinCloses(Recorder, u)
    \/ \E u \in Users : StdinWriteError(Recorder, u)

SpecSession == Init /\ [][NextSession]_vars

\* One track against the clock: the recording process, one participant, the frames
\* written to the sink and the time that passes.
NextClock ==
    \/ ClientReady(Recorder)
    \/ StartCall(Recorder, "g1", "d1", TRUE)
    \/ StartChecks(Recorder, TRUE)
    \/ StartReady(Recorder)
    \/ StopCall(Recorder, "g1", TRUE)
    \/ FinishStop(Recorder, "api")
    \/ \E new \in Chans : VoiceStateUpdate(Speaker, new)
    \/ SpeakingStart(Recorder, Speaker)
    \/ SpeakingEnd(Recorder, Speaker)
    \/ StreamEnds(Recorder, Speaker)
    \/ SilenceData(Recorder, Speaker)
    \/ DecoderData(Recorder, Speaker)
    \/ Tick

SpecClock == Init /\ [][NextClock]_vars

\* The stop protocol with its timers: one recorder, which may die, lose its
\* connection or be signalled, a local stop in the recorder and a remote stop in the
\* requester.  While a process lives its timers fire: the 500 ms poll, the
\* escalation after the loop, the end of the 5 s wait.
NextStop ==
    \/ \E p \in Procs : ClientReady(p)
    \/ Crash(Recorder)
    \/ HandleSignal(Recorder)
    \/ StartCall(Recorder, "g1", "d1", TRUE)
    \/ StartChecks(Recorder, TRUE)
    \/ StartReady(Recorder)
    \/ Disconnected(Recorder)
    \/ Reconnected(Recorder)
    \/ ReconnectFailed(Recorder)
    \/ \E p \in Procs, writeOk \in BOOLEAN : StopCall(p, "g1", writeOk)
    \/ StopPoll(Requester)
    \/ StopEscalate(Requester)
    \/ MonitorPoll(Recorder)
    \/ \E src \in DrainSources : FinishStop(Recorder, src)

\* The two commands of the CLI, each in a process of its own: the recorder runs
\* start, the requester runs stop; the recorder's encoder for the speaker ends in
\* every way it can and leaves a file on either side of the size threshold.
NextCli ==
    \/ \E p \in Procs : ClientReady(p)
    \/ StartCall(Recorder, "g1", "d1", TRUE)
    \/ \E resolvable \in BOOLEAN : StartChecks(Recorder, resolvable)
    \/ StartReady(Recorder)
    \/ StartTimeout(Recorder)
    \/ CliStartFailed(Recorder)
    \/ \E g \in Guilds, writeOk \in BOOLEAN : StopCall(Requester, g, writeOk)
    \/ StopPoll(Requester)
    \/ StopEscalate(Requester)
    \/ CliStopDone(Requester)
    \/ MonitorPoll(Recorder)
    \/ HandleSignal(Recorder)
    \/ \E src \in DrainSources : FinishStop(Recorder, src)
    \/ \E new \in {"none", "rec"} : VoiceStateUpdate(Speaker, new)
    \/ \E size \in FileSizes \cup {NoSize} : EncoderFails(Recorder, Speaker, size)
    \/ \E size \in FileSizes : EncoderExits(Recorder, Speaker, size)
    \/ \E size \in FileSizes \cup {NoSize} : KillTimer(Recorder, Speaker, size)

SpecCli == Init /\ [][NextCli]_vars

\* A recording process and one speaker whose detached streams and decoders still
\* emit events.
NextStale ==
    \/ ClientReady(Recorder)
    \/ StartCall(Recorder, "g1", "d1", TRUE)
    \/ StartChecks(Recorder, TRUE)
    \/ StartReady(Recorder)
    \/ \E new \in {"none", "rec"} : VoiceStateUpdate(Speaker, new)
    \/ SpeakingStart(Recorder, Speaker)
    \/ SpeakingEnd(Recorder, Speaker)
    \/ StreamEnds(Recorder, Speaker)
    \/ DecoderData(Recorder, Speaker)
    \/ StaleStreamEvent(Recorder, Speaker)
    \/ StaleDecoderData(Recorder, Speaker)

SpecStale == Init /\ [][NextStale]_vars

\* A recording process and one speaker: the silence generator and the decoder
\* produce frames at their pace, the encoder reads them at its own.
NextQueue ==
    \/ ClientReady(Recorder)
    \/ StartCall(Recorder, "g1", "d1", TRUE)
    \/ StartChecks(Recorder, TRUE)
    \/ StartReady(Recorder)
    \/ \E new \in {"none", "rec"} : VoiceStateUpdate(Speaker, new)
    \/ SpeakingStart(Recorder, Speaker)
    \/ SpeakingEnd(Recorder, Speaker)
    \/ SilenceData(Recorder, Speaker)
    \/ DecoderData(Recorder, Speaker)
    \/ EncoderReads(Recorder, Speaker)
    \/ StopCall(Recorder, "g1", TRUE)
    \/ FinishStop(Recorder, "api")

SpecQueue == Init /\ [][NextQueue]_vars

\* A recording process with one participant and one bot: both are in the channel or
\* not when the recording starts, both come and go, both are reported speaking.
NextBots ==
    \/ ClientReady(Recorder)
    \/ StartCall(Recorder, "g1", "d1", TRUE)
    \/ StartChecks(Recorder, TRUE)
    \/ StartReady(Recorder)
    \/ StopCall(Recorder, "g1", TRUE)
    \/ FinishStop(Recorder, "api")
    \/ \E u \in {Speaker} \cup Bots, new \in Chans : VoiceStateUpdate(u, new)
    \/ \E u \in {Speaker} \cup Bots : SpeakingStart(Recorder, u)
    \/ \E u \in {Speaker} \cup Bots : SpeakingEnd(Recorder, u)
    \/ \E u \in {Speaker} \cup Bots : StreamEnds(Recorder, u)

SpecBots == Init /\ [][NextBots]_vars

SpecStop ==
    /\ Init /\ [][NextStop]_vars
    /\ WF_vars(StopPoll(Requester))
    /\ WF_vars(StopEscalate(Requester))
    /\ \A src \in DrainSources : WF_vars(FinishStop(Recorder, src))

\* ------------------------------------------------------------ claims
\* bytes per millisecond of the PCM format: 48000 Hz x 2 channels x 2 bytes
BytesPerMs == (SAMPLE_RATE * CHANNELS * 2) \div 1000

Abs(n) == IF n < 0 THEN 0 - n ELSE n

\* the track is between its creation and its cleanup()
Live(t) == t.exists /\ ~t.cleanedUp

\* C1: between creation and cleanup() the sink of every track is fed by exactly one
\* source: the silence generator's handler writes exactly when no decoder is
\* attached to write decoded voice, never both, never neither.
C1_ExactlyOneSource ==
    \A p \in Procs, u \in Users :
        Live(userTracks[p][u]) =>
            (SilenceWrites(userTracks[p][u]) # VoiceWrites(userTracks[p][u]))

\* C2: for every track, the bytes written to its sink are the time since the track
\* was created at 192000 bytes/s, within one frame (3840 bytes).
C2_BytesFollowClock ==
    \A p \in Procs, u \in Users :
        Live(userTracks[p][u]) =>
            Abs(userTracks[p][u].bytes
                - (now - userTracks[p][u].createdAt) * BytesPerMs) <= BytesPerFrame

\* C3: no two processes hold an active session for the same call at once.
C3_OneSessionPerCall ==
    \A p \in Procs, q \in Procs :
        (p # q /\ activeRecording[p] # NoRec /\ activeRecording[q] # NoRec)
            => activeRecording[p].guildId # activeRecording[q].guildId

\* C4: when startRecording reaches its registry check and the registry holds a
\* record of a live owner, it returns false, leaves the record and joins nothing;
\* when the owner is dead (and the encoder check passed) the record is unlinked and
\* the start goes on to the join or to a failed guild/channel/permission check; a
\* start that succeeds leaves the record of the starting process.
C4_RefusedOrStaleCleared ==
    [][\A p \in Procs :
        /\ (startPc[p] = "checkFFmpeg" /\ startPc'[p] # "checkFFmpeg" /\ alive'[p]) =>
            /\ (registry # NoState /\ alive[registry.pid]) =>
                /\ startResult'[p] = "false"
                /\ registry' = registry
                /\ connection'[p] = "none"
                /\ activeRecording'[p] = NoRec
            /\ (registry # NoState /\ ~alive[registry.pid] /\ ffmpegOnPath) =>
                /\ registry' = NoState
                /\ \/ startPc'[p] = "entersState" /\ connection'[p] = "signalling"
                   \/ startArgs'[p].log = "guild, channel or permission missing"
        /\ (startPc[p] = "entersState" /\ startResult'[p] = "true") =>
            /\ registry'.pid = p
            /\ registry'.guildId = startArgs[p].guildId
            /\ activeRecording'[p] # NoRec
      ]_vars

\* a process records under its own record after it unlinked the record of a dead owner
C4_Witness ==
    \E p \in Procs :
        /\ startArgs[p].clearedStale
        /\ startResult[p] = "true"
        /\ registry.pid = p
        /\ activeRecording[p] # NoRec

\* C5: a stopRecording(guildId) that returns true leaves no record for guildId in
\* the registry, it polls at most STOP_POLLS times, and it returns false when its
\* process.kill of the owner failed.
C5_StopClearsRegistry ==
    [][\A p \in Procs :
        /\ (stopPc[p] # "idle" /\ stopPc'[p] = "idle" /\ alive'[p]
                /\ stopResult'[p] = "true")
            => registry'.guildId # stopArgs[p].guildId
        /\ (stopPc[p] = "polling" /\ stopPc'[p] = "idle" /\ killFailed'[p])
            => (stopResult'[p] = "false" /\ registry' = registry)
        /\ stopPolls'[p] <= STOP_POLLS
      ]_vars

\* a remote stop returned true while the signalled owner still holds its session
C5_Witness ==
    \E p \in Procs :
        /\ stopResult[p] = "true"
        /\ stopPc[p] = "idle"
        /\ stopArgs[p].pid \in Procs \ {p}
        /\ alive[stopArgs[p].pid]
        /\ sigPending[stopArgs[p].pid]
        /\ activeRecording[stopArgs[p].pid] # NoRec
        /\ activeRecording[stopArgs[p].pid].guildId = stopArgs[p].guildId
        /\ registry = NoState

\* C6: a session spawns at most one encoder (one track, one file) per participant,
\* whatever joins, leaves and speaker-starts arrive, and while the participant is
\* away the silence handler of that track keeps writing to its sink.
C6_OneTrackPerParticipant ==
    \A p \in Procs, u \in Users :
        /\ userTracks[p][u].spawns <= 1
        /\ (Live(userTracks[p][u]) /\ ~userTracks[p][u].isPresent)
                => SilenceWrites(userTracks[p][u])

\* a participant left, rejoined and speaks again, on the one track
C6_Witness ==
    \E p \in Procs, u \in Users :
        /\ userTracks[p][u].leaveTime # NullTime
        /\ userTracks[p][u].isPresent
        /\ userTracks[p][u].currentOpusStream
        /\ userTracks[p][u].spawns = 1

C8_StopAfterEveryCleanup ==
    [][\A p \in Procs :
        (draining'[p] # draining[p] /\ alive'[p] /\ activeRecording'[p] = NoRec)
            => /\ connection'[p] = "destroyed"
               /\ \A u \in Users :
                    userTracks'[p][u].exists => userTracks'[p][u].cleanedUp
      ]_vars

\* C9: when the reconnection fails the session is torn down: cleanup() on every
\* track, the connection released, no active session, no registry record.
C9_TeardownOnReconnectFailure ==
    [][\A p \in Procs :
        (recovering[p] /\ ~recovering'[p] /\ connection'[p] = "destroyed" /\ alive'[p])
            => /\ activeRecording'[p] = NoRec
               /\ registry' = NoState
               /\ \A u \in Users :
                    userTracks'[p][u].exists => userTracks'[p][u].cleanedUp
      ]_vars

\* C10: what follows from the failure of one track's encoder (the failure, the
\* close of its stdin, the failed write to it) leaves the session active, the
\* registry record in place, no stop under way and every other track as it was.
C10_EncoderFailureLocal ==
    [][\A u \in Users :
        (\/ EncoderFails(Recorder, u, NoSize)
         \/ StdinCloses(Recorder, u)
         \/ StdinWriteError(Recorder, u))
            => /\ activeRecording' = activeRecording
               /\ registry' = registry
               /\ draining' = draining
               /\ alive' = alive
               /\ \A v \in Users \ {u} :
                    userTracks'[Recorder][v] = userTracks[Recorder][v]
      ]_vars

\* C11: the poll of _monitorStopFlag that finds the stop flag while the session is
\* active (and the process is not exiting) begins the stop sequence, cleanup() on
\* every track included, and when that stop sequence ends neither the stop flag nor
\* the registry record is there.
C11_FlagStopsSession ==
    [][\A p \in Procs :
        /\ (monitor[p] /\ ~monitor'[p] /\ alive'[p] /\ ~shouldExit[p]
                /\ activeRecording[p] # NoRec)
            => /\ stopFlag[activeRecording[p].outputDir]
               /\ "flag" \in draining'[p]
               /\ \A u \in Users :
                    userTracks'[p][u].exists => userTracks'[p][u].cleanedUp
        /\ ("flag" \in draining[p] /\ "flag" \notin draining'[p] /\ alive'[p])
            => /\ ~stopFlag'[RecOf(p).outputDir]
               /\ registry' = NoState
               /\ activeRecording'[p] = NoRec
      ]_vars

\* the owner ended a stop sequence begun by its poll, its process lives on
C11_Witness ==
    \E p \in Procs :
        /\ alive[p]
        /\ startResult[p] = "true"
        /\ ~monitor[p] /\ ~shouldExit[p]
        /\ draining[p] = {}
        /\ stopPc[p] = "idle" /\ stopResult[p] = "none"
        /\ activeRecording[p] = NoRec
        /\ connection[p] = "destroyed"
        /\ ~recovering[p]
        /\ ~stopFlag[startArgs[p].outputDir]
        /\ \E q \in Procs \ {p} : stopArgs[q].pid = p

\* C12: every stopRecording call that has begun returns, unless its process dies
\* first: the local stop when its 5 s wait ends, the remote stop after at most
\* STOP_POLLS polls and one process.kill, whatever the owner does.
C12_StopReturns ==
    \A p \in Procs : (stopPc[p] # "idle") ~> (stopPc[p] = "idle" \/ ~alive[p])

\* a remote stop polled STOP_POLLS times and failed to kill a dead owner
C12_Witness ==
    \E p \in Procs :
        /\ alive[p] /\ stopPc[p] = "idle"
        /\ killFailed[p] /\ stopResult[p] = "false"
        /\ ~alive[stopArgs[p].pid]

\* the step takes the track of u in p from present to absent: userLeft
Leaves(p, u) ==
    /\ userTracks[p][u].exists /\ userTracks[p][u].isPresent
    /\ userTracks'[p][u].exists /\ ~userTracks'[p][u].isPresent

\* the step releases the source attached to the track of u in p and the participant
\* stays: stopReceivingAudio or the 'end'/'error' handlers
Detaches(p, u) ==
    /\ userTracks[p][u].currentOpusStream /\ ~userTracks'[p][u].currentOpusStream
    /\ userTracks[p][u].isPresent /\ userTracks'[p][u].isPresent
    /\ userTracks'[p][u].cleanedUp = userTracks[p][u].cleanedUp

\* C13: a leave releases the attached source and marks the track absent, and leaves
\* the sink alone: silence generator, mixer stream, encoder and pipe as they were,
\* and the silence handler writes its frames to the sink of the absent track.
C13_LeaveKeepsSink ==
    [][\A p \in Procs, u \in Users :
        /\ Leaves(p, u) =>
            /\ ~userTracks'[p][u].currentOpusStream
            /\ ~userTracks'[p][u].currentDecoder
            /\ ~userTracks'[p][u].isReceivingAudio
            /\ userTracks'[p][u].openStreams = {}
            /\ userTracks'[p][u].silenceGenerator = userTracks[p][u].silenceGenerator
            /\ userTracks'[p][u].mixerWritable = userTracks[p][u].mixerWritable
            /\ userTracks'[p][u].ffmpegProcess = userTracks[p][u].ffmpegProcess
            /\ userTracks'[p][u].piped = userTracks[p][u].piped
            /\ userTracks'[p][u].bytes = userTracks[p][u].bytes
            /\ Live(userTracks[p][u]) => SilenceWrites(userTracks'[p][u])
        /\ (~userTracks[p][u].isPresent /\ Live(userTracks[p][u])
                /\ ~userTracks[p][u].currentOpusStream
                /\ ~userTracks'[p][u].currentOpusStream
                /\ userTracks'[p][u].bytes > userTracks[p][u].bytes
                /\ userTracks'[p][u].isPresent = userTracks[p][u].isPresent)
            => /\ userTracks'[p][u].lastWriter = "silence"
               /\ userTracks'[p][u].bytes = userTracks[p][u].bytes + BytesPerFrame
      ]_vars

\* the participant spoke, left, and a silence frame was written since
C13_Witness ==
    \E p \in Procs, u \in Users :
        /\ Live(userTracks[p][u])
        /\ ~userTracks[p][u].isPresent
        /\ userTracks[p][u].leaveTime # NullTime
        /\ userTracks[p][u].subscribed > 0
        /\ userTracks[p][u].lastWriter = "silence"
        /\ userTracks[p][u].bytes >= 2 * BytesPerFrame

C15_DuplicateAttachIgnored ==
    [][\A p \in Procs, u \in Users :
        (userTracks[p][u].currentOpusStream /\ userTracks'[p][u].exists)
            => userTracks'[p][u].subscribed = userTracks[p][u].subscribed
      ]_vars

C17_TimeoutReleasesAll ==
    [][\A p \in Procs :
        (startPc[p] = "entersState" /\ startPc'[p] = "idle" /\ alive'[p]
                /\ startResult'[p] # "true")
            => /\ startResult'[p] = "false"
               /\ connection'[p] = "destroyed"
               /\ activeRecording'[p] = NoRec
               /\ registry' = registry
               /\ ~listening'[p] /\ ~monitor'[p]
               /\ userTracks'[p] = NoTracks
               /\ dirExists' = dirExists
      ]_vars

\* a start failed on the readiness wait
C17_Witness ==
    \E p \in Procs :
        /\ alive[p]
        /\ startArgs[p].log = "failed to enter ready state"
        /\ startResult[p] = "false"
        /\ startPc[p] = "idle"

\* the track was just made and its participant marked present: nothing attached,
\* nothing written, the silence handler writing
PresentSilentNew(t) ==
    /\ t.exists /\ t.isPresent
    /\ ~t.currentOpusStream /\ ~t.currentDecoder
    /\ t.spawns = 1 /\ t.bytes = 0 /\ t.subscribed = 0
    /\ t.ffmpegProcess = "running" /\ t.piped
    /\ SilenceWrites(t)

\* C18: the step on which startRecording succeeds leaves a track for exactly the
\* participants in the recorded channel, each present, with nothing attached and its
\* silence handler writing; later a participant without a track gets one on joining
\* the channel or on the first speaker-start.
C18_InitialTracks ==
    [][\A p \in Procs, u \in Users :
        /\ (startPc[p] = "entersState" /\ startResult'[p] = "true")
            => /\ userTracks'[p][u].exists = (channel[u] = "rec")
               /\ channel[u] = "rec" => PresentSilentNew(userTracks'[p][u])
        /\ (alive[p] /\ listening[p] /\ ~userTracks[p][u].exists
                /\ channel[u] = "none" /\ channel'[u] = "rec")
            => PresentSilentNew(userTracks'[p][u])
        /\ (~userTracks[p][u].exists /\ userTracks'[p][u].exists
                /\ userTracks'[p][u].subscribed = 1)
            => /\ userTracks'[p][u].isPresent
               /\ userTracks'[p][u].currentOpusStream
               /\ userTracks'[p][u].spawns = 1
      ]_vars

\* one participant has the track made at the start, the other a track made later
C18_Witness ==
    \E p \in Procs, u \in Users, v \in Users :
        /\ u # v
        /\ activeRecording[p] # NoRec
        /\ userTracks[p][u].exists /\ userTracks[p][u].joinTime = 0
        /\ userTracks[p][u].leaveTime = NullTime
        /\ userTracks[p][v].exists /\ userTracks[p][v].subscribed = 1
        /\ draining[p] = {}

C19_BotsIgnored ==
    [][\A p \in Procs, b \in Bots :
        /\ userTracks'[p][b] = NoTrack
        /\ channel'[b] # channel[b] => userTracks' = userTracks
      ]_vars

\* the recording runs with the bot in the recorded channel beside a speaking
\* participant
C19_Witness ==
    \E b \in Bots :
        /\ channel[b] = "rec"
        /\ activeRecording[Recorder] # NoRec
        /\ listening[Recorder]
        /\ userTracks[Recorder][Speaker].currentOpusStream

\* C21: a join writes nothing to the sink: on every step that makes a track present
\* (the track is created, or userJoined runs on it) the bytes in its sink are what
\* they were.
C21_JoinWritesNothing ==
    [][\A p \in Procs, u \in Users :
        (~userTracks[p][u].isPresent /\ userTracks'[p][u].isPresent)
            => userTracks'[p][u].bytes = userTracks[p][u].bytes
      ]_vars

\* the logs of startRecording's precondition failures
PreconditionLogs ==
    {"client not ready", "FFmpeg not found on PATH",
     "another recording is already running", "guild, channel or permission missing"}

\* C23: after the 'close' handler of an encoder no file under MIN_FILE_SIZE bytes
\* is left for the track.
C23_SmallFileDeleted ==
    \A p \in Procs, u \in Users :
        userTracks[p][u].fileSize # NoSize => userTracks[p][u].fileSize >= MIN_FILE_SIZE

\* C24: a start that failed on a precondition and a start that failed on the
\* readiness wait never returned the same value.
C24_FailuresDistinguished ==
    \A p \in Procs, q \in Procs :
        (/\ startResult[p] # "none" /\ startArgs[p].log \in PreconditionLogs
         /\ startResult[q] # "none" /\ startArgs[q].log = "failed to enter ready state")
            => startResult[p] # startResult[q]

\* C25: a process ended by the stop command with status 0 had true from
\* stopRecording; a process ended by the start command has status 1 and had false
\* from startRecording, and no command ends a process whose start returned true.
C25_ExitStatus ==
    \A p \in Procs :
        /\ cliExit[p] = 0 => stopResult[p] = "true"
        /\ cliExit[p] = 1 => startResult[p] = "false"
        /\ startResult[p] = "true" => cliExit[p] = NoExit

\* C26: while a stop sequence of the session is in its wait no track is created and
\* no stream is subscribed or attached.
C26_NothingNewWhileStopping ==
    [][\A p \in Procs, u \in Users :
        (draining[p] # {} /\ alive'[p])
            => /\ userTracks'[p][u].exists = userTracks[p][u].exists
               /\ userTracks'[p][u].subscribed = userTracks[p][u].subscribed
               /\ userTracks'[p][u].currentOpusStream => userTracks[p][u].currentOpusStream
      ]_vars

\* C27: the step that removes the state file removes the record of a dead owner, of
\* an owner that acts in the step (its stop ends, its reconnection fails), or of the
\* owner the remover has just signalled.
C27_OnlyOwnOrDeadRecord ==
    [][(registry # NoState /\ registry' = NoState) =>
        \/ ~alive[registry.pid]
        \/ draining'[registry.pid] # draining[registry.pid]
        \/ recovering'[registry.pid] # recovering[registry.pid]
        \/ alive'[registry.pid] # alive[registry.pid]
        \/ sigPending'[registry.pid] /\ ~sigPending[registry.pid]
      ]_vars

\* C22: a remote stop signals the owner only after all STOP_POLLS polls found the
\* record, whether or not its write of the stop flag went through, and a poll that
\* finds the record cleared returns true and signals nobody.
C22_EscalationAfterPolls ==
    [][\A p \in Procs :
        (stopPc[p] = "polling" /\ stopPc'[p] = "idle" /\ alive'[p]) =>
            IF sigPending' # sigPending
            THEN stopPolls[p] = STOP_POLLS
            ELSE stopPolls[p] < STOP_POLLS
                    => stopResult'[p] = "true" /\ StateCleared(registry, stopArgs[p].guildId)
      ]_vars

\* a remote stop wrote its flag, polled STOP_POLLS times and signalled the live owner
C22_Witness ==
    \E p \in Procs :
        /\ stopPc[p] = "idle" /\ stopResult[p] = "true"
        /\ stopArgs[p].wrote /\ stopFlag[stopArgs[p].outputDir]
        /\ stopArgs[p].pid \in Procs \ {p}
        /\ alive[stopArgs[p].pid] /\ sigPending[stopArgs[p].pid]

\* C22 as stated: a remote stop signals the owner only after its stop flag was
\* written and all STOP_POLLS polls found the record, and a poll that finds the
\* record cleared returns true and signals nobody.
C22_EscalationLastResort ==
    [][\A p \in Procs :
        (stopPc[p] = "polling" /\ stopPc'[p] = "idle" /\ alive'[p]) =>
            IF sigPending' # sigPending
            THEN stopArgs[p].wrote /\ stopPolls[p] = STOP_POLLS
            ELSE stopPolls[p] < STOP_POLLS => stopResult'[p] = "true"
      ]_vars

\* C28: the first handler that runs for an event of a detached stream or decoder
\* while a source is attached leaves that source attached, leaves isReceivingAudio
\* as it is and writes nothing to the sink.
C28_StaleEventsIgnored ==
    [][\A p \in Procs, u \in Users :
        (/\ ~userTracks[p][u].staleHandled /\ userTracks'[p][u].staleHandled
         /\ userTracks[p][u].currentOpusStream)
            => /\ userTracks'[p][u].currentOpusStream
               /\ userTracks'[p][u].currentDecoder
               /\ userTracks'[p][u].isReceivingAudio = userTracks[p][u].isReceivingAudio
               /\ userTracks'[p][u].bytes = userTracks[p][u].bytes
      ]_vars

\* C29: when a remote stop returns, the output directory it wrote to holds no stop
\* flag.
C29_NoFlagAfterRemoteStop ==
    [][\A p \in Procs :
        (stopPc[p] = "polling" /\ stopPc'[p] = "idle" /\ alive'[p])
            => ~stopFlag'[stopArgs[p].outputDir]
      ]_vars

\* C30: a track with a source attached is the track of a present participant.
C30_AttachedImpliesPresent ==
    \A p \in Procs, u \in Users :
        (userTracks[p][u].isReceivingAudio \/ userTracks[p][u].currentOpusStream)
            => userTracks[p][u].isPresent

\* C31: while the listeners of a session are registered, the isPresent flag of each
\* of its tracks says whether the participant is in the recorded channel.
C31_PresenceFollowsChannel ==
    \A p \in Procs, u \in Users :
        (alive[p] /\ listening[p] /\ activeRecording[p] # NoRec /\ userTracks[p][u].exists)
            => (userTracks[p][u].isPresent <=> channel[u] = "rec")

C35_ReconnectChangesNothing ==
    [][\A p \in Procs :
        (recovering[p] /\ ~recovering'[p] /\ connection'[p] = "ready")
            => /\ activeRecording' = activeRecording
               /\ userTracks' = userTracks
               /\ registry' = registry
               /\ stopFlag' = stopFlag
               /\ listening' = listening /\ monitor' = monitor /\ draining' = draining
      ]_vars

\* a session with a source attached to a present participant's track awaits its
\* reconnection
C35_Witness ==
    \E p \in Procs, u \in Users :
        /\ alive[p] /\ recovering[p] /\ connection[p] = "disconnected"
        /\ activeRecording[p] # NoRec /\ registry # NoState /\ registry.pid = p
        /\ userTracks[p][u].isPresent /\ userTracks[p][u].currentOpusStream

\* C36: stopRecording(g) in a process whose active session, if any, is not for g,
\* with no state file or a record of another guild, returns false at once and
\* changes nothing: no stop flag, no signal, the registry, the tracks and the stop
\* sequences as they were.
C36_NothingToStop ==
    [][\A p \in Procs, g \in Guilds, writeOk \in BOOLEAN :
        (/\ StopCall(p, g, writeOk)
         /\ activeRecording[p] = NoRec \/ activeRecording[p].guildId # g
         /\ registry = NoState \/ registry.guildId # g)
            => /\ stopResult'[p] = "false" /\ stopPc'[p] = "idle"
               /\ stopFlag' = stopFlag
               /\ sigPending' = sigPending
               /\ registry' = registry
               /\ activeRecording' = activeRecording
               /\ userTracks' = userTracks /\ draining' = draining
      ]_vars

\* a stop for one guild returned false while a live process records another guild
C36_Witness ==
    \E p \in Procs :
        /\ alive[p] /\ stopPc[p] = "idle" /\ stopResult[p] = "false"
        /\ stopArgs[p].guildId \in Guilds /\ stopArgs[p].pid = "none"
        /\ registry # NoState /\ registry.guildId # stopArgs[p].guildId
        /\ alive[registry.pid] /\ activeRecording[registry.pid] # NoRec
        /\ ~stopFlag[registry.outputDir] /\ ~sigPending[registry.pid]

\* C38: the frame the silence generator pushes is 960 samples x 2 channels x 2 bytes
\* = 3840 bytes, which is 20 ms at 48 kHz, every byte zero, and each 'data' of the
\* generator that is written adds exactly these bytes to the sink.
C38_SilenceFrame ==
    [][\A u \in Users :
        SilenceData(Recorder, u)
            => /\ userTracks'[Recorder][u].bytes = userTracks[Recorder][u].bytes + 3840
               /\ userTracks'[Recorder][u].lastWriter = "silence"
               /\ SilenceBuffer.length = 960 * 2 * 2
               /\ SilenceBuffer.length * 1000 = 20 * (48000 * 2 * 2)
               /\ SilenceBuffer.fill = 0
      ]_vars

\* the sink of a track holds one frame, written by the silence generator
C38_Witness ==
    \E u \in Users :
        /\ userTracks[Recorder][u].lastWriter = "silence"
        /\ userTracks[Recorder][u].bytes = SilenceBuffer.length

\* ------------------------------------------------------------ per-utterance recorder
\* setupRecording of the per-utterance recorder, for one user of one recording
UtteranceRest ==
    <<alive, isReady, shouldExit, activeRecording, userTracks, connection,
      recovering, sigPending, listening, monitor, draining, startPc, startArgs,
      startResult, stopPc, stopArgs, stopPolls, stopResult, killFailed, registry,
      stopFlag, dirExists, ffmpegOnPath, channel, now, cliExit, conversion, scrape,
      timers>>

\* an encoder process that was spawned and has not closed
Unclosed(k) == utterance.ffmpeg[k] \in {"running", "ending", "killed"}

\* receiver.speaking 'start': nothing when userStreams has the user; otherwise
\* subscribe, spawn the encoder, userStreams.set(userId, ...), pipe
UttSpeakingStart ==
    /\ utterance.userStreams = 0
    /\ utterance.spawned < MaxEncoders
    /\ LET k == utterance.spawned + 1 IN
        utterance' = [utterance EXCEPT
                        !.spawned = k,
                        !.userStreams = k,
                        !.audioStream[k] = "open",
                        !.ffmpeg[k] = "running"]
    /\ UNCHANGED UtteranceRest

\* audioStream 'error' of the k-th subscription: ffmpeg.kill() unless killed,
\* then userStreams.delete(userId)
UttStreamError(k) ==
    /\ utterance.audioStream[k] = "open"
    /\ utterance' = [utterance EXCEPT
                        !.audioStream[k] = "errored",
                        !.ffmpeg[k] = IF @ \in {"running", "ending"} THEN "killed" ELSE @,
                        !.userStreams = 0]
    /\ UNCHANGED UtteranceRest

\* audioStream 'end' of the k-th subscription (one second of silence):
\* ffmpeg.stdin.end() when the encoder is not killed and its stdin is writable
UttStreamEnd(k) ==
    /\ utterance.audioStream[k] = "open"
    /\ utterance' = [utterance EXCEPT
                        !.audioStream[k] = "ended",
                        !.ffmpeg[k] = IF @ = "running" THEN "ending" ELSE @]
    /\ UNCHANGED UtteranceRest

\* ffmpeg 'close' of the k-th encoder (it ended its input, was killed or
\* crashed): the size check on its own file, then userStreams.delete(userId)
UttEncoderClose(k) ==
    /\ Unclosed(k)
    /\ utterance' = [utterance EXCEPT
                        !.ffmpeg[k] = "closed",
                        !.userStreams = 0]
    /\ UNCHANGED UtteranceRest

\* ffmpeg 'error' of the k-th encoder (the spawn failed, no process exists):
\* userStreams.delete(userId)
UttEncoderError(k) ==
    /\ utterance.ffmpeg[k] = "running"
    /\ utterance.audioStream[k] = "open"
    /\ utterance' = [utterance EXCEPT
                        !.ffmpeg[k] = "failed",
                        !.userStreams = 0]
    /\ UNCHANGED UtteranceRest

NextUtterance ==
    \/ UttSpeakingStart
    \/ \E k \in Encoders : UttStreamError(k)
    \/ \E k \in Encoders : UttStreamEnd(k)
    \/ \E k \in Encoders : UttEncoderClose(k)
    \/ \E k \in Encoders : UttEncoderError(k)

SpecUtterance == Init /\ [][NextUtterance]_vars

\* C37: every encoder of the per-utterance recorder that was spawned and has
\* not closed is the one userStreams holds for its user, and no user has two
\* unclosed encoders, whatever the order of speaker-start, stream error,
\* stream end and encoder close
C37_UnclosedEncodersTracked ==
    /\ \A k \in Encoders : Unclosed(k) => utterance.userStreams = k
    /\ Cardinality({k \in Encoders : Unclosed(k)}) <= 1

\* ------------------------------------------------------------ PCM-to-WAV conversion
\* processRecording / convertPcmToWav of the decode-to-PCM recorder
ConversionRest ==
    <<alive, isReady, shouldExit, activeRecording, userTracks, connection,
      recovering, sigPending, listening, monitor, draining, startPc, startArgs,
      startResult, stopPc, stopArgs, stopPolls, stopResult, killFailed, registry,
      stopFlag, dirExists, ffmpegOnPath, channel, now, cliExit, utterance, scrape,
      timers>>

PcmStates == {"missing", "empty", "data"}
WavStates == {"missing", "empty", "data"}
\* exit codes of the encoder: 0, and 1 for every other code (a signal's null too)
ExitCodes == {0, 1}

\* processRecording is called: the captures of recording.users are on disk
ProcessRecording(pi, pcms) ==
    /\ ~conversion.started
    /\ conversion' = [started |-> TRUE, isRaspberryPi |-> pi,
                      files |-> [f \in Files |->
                                    [NoFile EXCEPT !.input = pcms[f], !.pcm = pcms[f]]]]
    /\ UNCHANGED ConversionRest

\* a close handler that takes every exit code for success
ExitedAnyCode(code) == code \in ExitCodes

\* the close handler's test on the encoder's exit code
ExitedCleanly(code) == code = 0

\* the loop body of processRecording for one capture, with its call of
\* convertPcmToWav: a missing capture is skipped, an empty one is unlinked, any
\* other one gets an encoder (and on a Raspberry Pi the 30 s timer). On a
\* Raspberry Pi the loop awaits each call before the next one.
ConvertPcmToWav(f) ==
    /\ conversion.started
    /\ conversion.files[f].pc = "idle"
    /\ conversion.isRaspberryPi =>
          \A g \in Files : g < f => conversion.files[g].pc = "resolved"
    /\ LET c == conversion.files[f] IN
        conversion' = [conversion EXCEPT !.files[f] =
            CASE c.pcm = "missing" -> [c EXCEPT !.pc = "resolved"]
              [] c.pcm = "empty"   -> [c EXCEPT !.pc = "resolved", !.pcm = "missing"]
              [] OTHER -> [c EXCEPT !.pc = "pending", !.ffmpeg = "running",
                                    !.timer = conversion.isRaspberryPi]]
    /\ UNCHANGED ConversionRest

\* ffmpeg 'close': with code 0 and a non-empty WAV the capture is unlinked (an
\* unlink that throws is caught); every branch resolves
ConvClose(f, code, wav, unlinkOk) ==
    /\ conversion.files[f].ffmpeg \in {"running", "signalled"}
    /\ LET c == conversion.files[f] IN
        conversion' = [conversion EXCEPT !.files[f] =
            [c EXCEPT !.ffmpeg = "closed",
                      !.code = code,
                      !.wav = wav,
                      !.pcm = IF ExitedCleanly(code) /\ wav = "data" /\ unlinkOk
                              THEN "missing" ELSE @,
                      !.pc = "resolved"]]
    /\ UNCHANGED ConversionRest

\* ffmpeg 'error' (the spawn failed, no process and no WAV): resolve
ConvSpawnError(f) ==
    /\ conversion.files[f].ffmpeg = "running"
    /\ conversion' = [conversion EXCEPT !.files[f] =
            [@ EXCEPT !.ffmpeg = "failed", !.pc = "resolved"]]
    /\ UNCHANGED ConversionRest

\* the Raspberry Pi timer after 30 s: unless ffmpeg.killed, kill('SIGTERM') and
\* resolve. kill() on an encoder that has exited sends nothing and leaves
\* ffmpeg.killed false.
ConvTimeout(f) ==
    /\ conversion.files[f].timer
    /\ LET c == conversion.files[f] IN
        conversion' = [conversion EXCEPT !.files[f] =
            IF c.killed THEN [c EXCEPT !.timer = FALSE]
            ELSE [c EXCEPT !.timer = FALSE,
                           !.killed = (c.ffmpeg = "running"),
                           !.ffmpeg = IF @ = "running" THEN "signalled" ELSE @,
                           !.pc = "resolved"]]
    /\ UNCHANGED ConversionRest

NextConversion ==
    \/ \E pi \in BOOLEAN, pcms \in [Files -> PcmStates] : ProcessRecording(pi, pcms)
    \/ \E f \in Files : ConvertPcmToWav(f)
    \/ \E f \in Files, code \in ExitCodes, wav \in WavStates, unlinkOk \in BOOLEAN :
          ConvClose(f, code, wav, unlinkOk)
    \/ \E f \in Files : ConvSpawnError(f)
    \/ \E f \in Files : ConvTimeout(f)

SpecConversion == Init /\ [][NextConversion]_vars

\* C39: a non-empty PCM capture given to convertPcmToWav is gone only if the
\* encoder closed with code 0 and left a non-empty WAV; after any other outcome
\* (another code, a spawn error, the timeout, a missing or empty WAV) the
\* capture is still there; and the promise is never rejected
C39_PcmKeptUnlessConverted ==
    \A f \in Files :
        LET c == conversion.files[f] IN
        /\ c.pc \in {"idle", "pending", "resolved"}
        /\ c.input = "data" /\ c.pcm # "data" =>
              c.ffmpeg = "closed" /\ c.code = 0 /\ c.wav = "data"
        /\ c.input = "data" /\ c.pc = "resolved" /\ ~(c.code = 0 /\ c.wav = "data") =>
              c.pcm = "data"

\* one capture was converted and removed, another one was kept after its
\* encoder was terminated by the timeout and closed with another code
C39_Witness ==
    \E f, g \in Files :
        /\ conversion.files[f].input = "data"
        /\ conversion.files[f].pcm = "missing"
        /\ conversion.files[f].pc = "resolved"
        /\ conversion.files[g].input = "data"
        /\ conversion.files[g].killed
        /\ conversion.files[g].ffmpeg = "closed"
        /\ conversion.files[g].pcm = "data"
        /\ conversion.files[g].pc = "resolved"

\* ------------------------------------------------------------ match scraper
\* the page.evaluate callback of the scraper, from the scoreboard rows on
ScrapeRest ==
    <<alive, isReady, shouldExit, activeRecording, userTracks, connection,
      recovering, sigPending, listening, monitor, draining, startPc, startArgs,
      startResult, stopPc, stopArgs, stopPolls, stopResult, killFailed, registry,
      stopFlag, dirExists, ffmpegOnPath, channel, now, cliExit, utterance,
      conversion, timers>>

Rows == 1..MaxPlayers
AcsValues == 0..MaxAcs
Scores == 0..MaxScore

acsBonusPoints == <<5, 4, 3, 2, 1>>

\* a comparator that orders by ACS ascending
AcsAscending(a, b) == a.acs < b.acs

\* the comparator (a, b) => b.acs - a.acs is negative: a sorts before b
AcsDescending(a, b) == b.acs - a.acs < 0

\* rows.map(...): the row at index (0-based) below 5 is Red, the others Blue; a
\* row without a name or tag becomes null
MapRow(rows, r) ==
    [name |-> r, team |-> IF r - 1 < 5 THEN "Red" ELSE "Blue", acs |-> rows[r].acs]

RECURSIVE MapRows(_, _)
\* rows.map(...).filter(p => p !== null), from row r on
MapRows(rows, r) ==
    IF r > Len(rows) THEN <<>>
    ELSE IF rows[r].named THEN <<MapRow(rows, r)>> \o MapRows(rows, r + 1)
    ELSE MapRows(rows, r + 1)

RECURSIVE InsertPlayer(_, _)
\* p, which stood before every player of the sorted t, goes before the first
\* one that the comparator does not put before p
InsertPlayer(p, t) ==
    IF t = <<>> THEN <<p>>
    ELSE IF AcsDescending(Head(t), p) THEN <<Head(t)>> \o InsertPlayer(p, Tail(t))
    ELSE <<p>> \o t

RECURSIVE SortPlayers(_)
\* players.sort(comparator): a stable sort
SortPlayers(ps) ==
    IF ps = <<>> THEN <<>> ELSE InsertPlayer(Head(ps), SortPlayers(Tail(ps)))

\* the two forEach passes: acs_bonus by position, then round_win_points and
\* total_points by team
AwardPoints(ps, redScore, blueScore) ==
    [i \in 1..Len(ps) |->
        LET acs_bonus == IF i - 1 < 5 THEN acsBonusPoints[i] ELSE 0
            round_win_points == IF ps[i].team = "Red" THEN redScore ELSE blueScore
        IN [name |-> ps[i].name, team |-> ps[i].team, acs |-> ps[i].acs,
            acs_bonus |-> acs_bonus,
            round_win_points |-> round_win_points,
            total_points |-> acs_bonus + round_win_points]]

\* page.evaluate on a scoreboard of MaxPlayers rows, at most one of them
\* without a name (unnamed = 0: none)
ScrapeMatch(acs, unnamed, redScore, blueScore) ==
    /\ ~scrape.done
    /\ LET rows == [r \in Rows |-> [named |-> r # unnamed, acs |-> acs[r]]] IN
        scrape' = [done |-> TRUE,
                   rows |-> rows,
                   team1_score |-> redScore,
                   team2_score |-> blueScore,
                   players |-> AwardPoints(SortPlayers(MapRows(rows, 1)),
                                           redScore, blueScore)]
    /\ UNCHANGED ScrapeRest

\* the scraper evaluates one page and exits
NextScrape ==
    /\ ~scrape.done
    /\ \E acs \in [Rows -> AcsValues], unnamed \in 0..MaxPlayers,
          redScore \in Scores, blueScore \in Scores :
           ScrapeMatch(acs, unnamed, redScore, blueScore)

SpecScrape == Init /\ [][NextScrape]_vars

\* C40: the scraped players are the named rows; the bonuses 5, 4, 3, 2, 1 go
\* to one player each (as far as there are players) and every other player
\* gets 0; a player with strictly higher ACS never has a smaller bonus than one
\* with lower ACS; total_points is acs_bonus plus team 1's score for a Red
\* player and team 2's score for a Blue player
C40_AcsBonusAndTotals ==
    scrape.done =>
        LET P == scrape.players
            n == Len(P)
        IN
        /\ n = Cardinality({r \in 1..Len(scrape.rows) : scrape.rows[r].named})
        /\ \A r \in 1..Len(scrape.rows) :
              scrape.rows[r].named =>
                  Cardinality({i \in 1..n : P[i].name = r
                                            /\ P[i].acs = scrape.rows[r].acs}) = 1
        /\ \A i \in 1..n : P[i].acs_bonus \in 0..5
        /\ \A b \in 1..5 :
              Cardinality({i \in 1..n : P[i].acs_bonus = b})
                  = IF n >= 6 - b THEN 1 ELSE 0
        /\ \A i, j \in 1..n :
              P[i].acs > P[j].acs => P[i].acs_bonus >= P[j].acs_bonus
        /\ \A i \in 1..n :
              P[i].total_points =
                  P[i].acs_bonus + (IF P[i].team = "Red" THEN scrape.team1_score
                                    ELSE scrape.team2_score)

\* six players were scraped, the Blue one has the highest ACS and the bonus 5,
\* a Red one with the lowest ACS has the bonus 0, and the round scores differ
C40_Witness ==
    /\ scrape.done
    /\ Len(scrape.players) = 6
    /\ scrape.team1_score # scrape.team2_score
    /\ \E i, j \in 1..Len(scrape.players) :
          /\ scrape.players[i].team = "Blue"
          /\ scrape.players[i].acs_bonus = 5
          /\ scrape.players[i].total_points = 5 + scrape.team2_score
          /\ scrape.players[j].team = "Red"
          /\ scrape.players[j].acs_bonus = 0
          /\ scrape.players[j].acs < scrape.players[i].acs
          /\ scrape.players[j].total_points = scrape.team1_score

\* ------------------------------------------------------------ the stop protocol in time
\* the delays of the stop protocol, in milliseconds
POLL_MS == 500
MONITOR_MS == 1000

\* a wait of _stopCurrentRecording as long as the whole poll loop
DrainOutlastsPolls == STOP_POLLS * POLL_MS

\* await new Promise((r) => setTimeout(r, 5000)) of _stopCurrentRecording
DRAIN_MS == 5000

\* every delay is a multiple of the step in which time passes
TimeStepMs == POLL_MS

TimedRest ==
    <<alive, isReady, shouldExit, activeRecording, userTracks, connection,
      recovering, sigPending, listening, monitor, draining, startPc, startArgs,
      startResult, stopPc, stopArgs, stopPolls, stopResult, killFailed, registry,
      stopFlag, dirExists, ffmpegOnPath, channel, now, cliExit, utterance,
      conversion, scrape>>

\* startRecording's last part, which sets the monitor's interval
TimedStartReady(p) ==
    /\ StartReadyStep(p)
    /\ timers' = [timers EXCEPT ![p]["monitor"] = MONITOR_MS]

\* stopRecording up to its first await: the 5 s wait of the local stop or the
\* first 500 ms wait of the poll loop begins
TimedStopCall(p, g, writeOk) ==
    /\ StopCallStep(p, g, writeOk)
    /\ timers' = [timers EXCEPT
                    ![p]["poll"] = IF stopPc'[p] = "polling" THEN POLL_MS ELSE @,
                    ![p]["api"] = IF "api" \in draining'[p] /\ @ = NullTime
                                  THEN DRAIN_MS ELSE @]

\* the 500 ms wait of the poll loop is over: the state file is read again, and
\* the next wait begins unless the loop is left
TimedStopPoll(p) ==
    /\ timers[p]["poll"] = 0
    /\ StopPollStep(p)
    /\ timers' = [timers EXCEPT
                    ![p]["poll"] = IF stopPc'[p] = "polling"
                                      /\ stopPolls'[p] < STOP_POLLS
                                   THEN POLL_MS ELSE NullTime]

\* the monitor's interval fires and finds shouldExit or the stop flag: the
\* interval is cleared and, for the flag, _stopCurrentRecording begins its wait
TimedMonitorPoll(p) ==
    /\ timers[p]["monitor"] = 0
    /\ MonitorPollStep(p)
    /\ timers' = [timers EXCEPT
                    ![p]["monitor"] = NullTime,
                    ![p]["flag"] = IF "flag" \in draining'[p] /\ @ = NullTime
                                   THEN DRAIN_MS ELSE @]

\* the monitor's interval fires and finds neither: it fires again 1 s later
MonitorIdle(p) ==
    /\ alive[p] /\ monitor[p]
    /\ timers[p]["monitor"] = 0
    /\ ~shouldExit[p]
    /\ ~stopFlag[RecOf(p).outputDir]
    /\ timers' = [timers EXCEPT ![p]["monitor"] = MONITOR_MS]
    /\ UNCHANGED TimedRest

\* the signal handler: the process exits at once with no recording, else the
\* wait of _stopCurrentRecording begins
TimedHandleSignal(p) ==
    /\ HandleSignalStep(p)
    /\ timers' = [timers EXCEPT
                    ![p] = IF activeRecording[p] = NoRec THEN NoTimers
                           ELSE [@ EXCEPT !["signal"] =
                                    IF @ = NullTime THEN DRAIN_MS ELSE @]]

\* the 5 s wait of _stopCurrentRecording is over; a process that exits after it
\* takes its timers with it
TimedFinishStop(p, src) ==
    /\ timers[p][src] = 0
    /\ FinishStopStep(p, src)
    /\ timers' = [timers EXCEPT
                    ![p] = IF src \in {"signal", "uncaught"} THEN NoTimers
                           ELSE [@ EXCEPT ![src] = NullTime]]

\* TimeStepMs pass: no timer is due and no process is between two awaits (the
\* escalation follows the last poll at once)
Advance ==
    /\ \A p \in Procs, k \in TimerNames : timers[p][k] # 0
    /\ \A p \in Procs : ~(alive[p] /\ stopPc[p] = "polling" /\ stopPolls[p] = STOP_POLLS)
    /\ \E p \in Procs, k \in TimerNames : timers[p][k] # NullTime
    /\ timers' = [p \in Procs |-> [k \in TimerNames |->
                    IF timers[p][k] = NullTime THEN NullTime
                    ELSE timers[p][k] - TimeStepMs]]
    /\ UNCHANGED TimedRest

\* The CLI's two commands with their timers: the recorder runs start once, the
\* requester runs stop against it at any moment; the requester's write of the
\* stop flag may fail. Neither process is killed from outside.
NextTimed ==
    \/ \E p \in Procs : ClientReady(p)
    \/ StartCall(Recorder, "g1", "d1", TRUE)
    \/ StartChecks(Recorder, TRUE)
    \/ TimedStartReady(Recorder)
    \/ \E writeOk \in BOOLEAN : TimedStopCall(Requester, "g1", writeOk)
    \/ TimedStopPoll(Requester)
    \/ StopEscalate(Requester)
    \/ TimedMonitorPoll(Recorder)
    \/ MonitorIdle(Recorder)
    \/ TimedHandleSignal(Recorder)
    \/ \E src \in DrainSources : TimedFinishStop(Recorder, src)
    \/ Advance

SpecTimed == Init /\ [][NextTimed]_vars

\* C32: when the requester's stopRecording has written the stop flag for a
\* session whose owner is alive and monitoring, its poll loop never runs out
\* (the 16th poll at the latest sees the registry cleared), it returns true,
\* and the owner is never sent a termination signal
C32_RemoteStopWithinPolls ==
    stopArgs[Requester].wrote =>
        /\ alive[Recorder]
        /\ ~sigPending[Recorder]
        /\ ~killFailed[Requester]
        /\ stopPc[Requester] = "polling" => stopPolls[Requester] < STOP_POLLS
        /\ stopPc[Requester] = "idle" =>
              /\ stopResult[Requester] = "true"
              /\ StateCleared(registry, stopArgs[Requester].guildId)

\* the requester wrote the flag and has returned true; the owner is alive, has
\* ended its session and was not signalled
C32_Witness ==
    /\ stopArgs[Requester].wrote
    /\ stopPc[Requester] = "idle"
    /\ stopResult[Requester] = "true"
    /\ alive[Recorder]
    /\ ~sigPending[Recorder]
    /\ ~shouldExit[Recorder]
    /\ activeRecording[Recorder] = NoRec
    /\ registry = NoState

=============================================================================
